---- MODULE Spec2Model ----
(***************************************************************************)
(* A model of the eventlogs decoders: the CEL TLV parser (cel.py), the     *)
(* UEFI/TCG event-log parser (uefi/base.py, uefi/events.py) and the IMA    *)
(* template parser (ima.py).                                               *)
(*                                                                         *)
(* A byte is a number in 0..255 and a buffer is a sequence of bytes.  A    *)
(* parser object is a record of its fields (_data, _offset, and for UEFI   *)
(* _uintn and _digest_sizes).  Every method is an operator from the object *)
(* before the call to the outcome of the call:                             *)
(*     [ok |-> TRUE,  p |-> object after, v |-> value returned]            *)
(*     [ok |-> FALSE, p |-> object after, err |-> exception raised]        *)
(* An exception is a record of its class name and of what it carries.      *)
(* TLC's integers are 32-bit signed: the inputs keep every decoded integer *)
(* below 2^31.                                                             *)
(***************************************************************************)
EXTENDS Integers, Sequences, FiniteSets, TLC

VARIABLES
    input,           \* ghost: how the buffer under decode was built
    parser,          \* the parser object the caller holds
    call,            \* ghost: the last call made and the object before it
    result,          \* the outcome of the last call
    header,          \* ghost: the outcome of the session's last parse_header_event
    _event_handlers, \* uefi/base.py: the process-wide event handler registry
    registered,      \* ghost: the register_event_handler calls made, in order
    looked_up        \* the last lookup_event_handler call and what it returned

vars == <<input, parser, call, result, header, _event_handlers, registered,
          looked_up>>

(***************************************************************************)
(* Outcomes and exceptions                                                 *)
(***************************************************************************)
Ok(p, v) == [ok |-> TRUE, p |-> p, v |-> v]
Raise(p, e) == [ok |-> FALSE, p |-> p, err |-> e]

\* the rest of a method after a call that returned: an exception raised by
\* the call propagates instead
Bind(r, F(_)) == IF r.ok THEN F(r) ELSE r

\* the outcome, for the object self, of a call r made on another object (a
\* subparser, a class): self is left as it was
Sub(self, r) == IF r.ok THEN Ok(self, r.v) ELSE Raise(self, r.err)

EOFError == [kind |-> "EOFError", args |-> <<>>]
ValueError(args) == [kind |-> "ValueError", args |-> args]
KeyError(args) == [kind |-> "KeyError", args |-> args]
AttributeError == [kind |-> "AttributeError", args |-> <<>>]
NotImplementedError == [kind |-> "NotImplementedError", args |-> <<>>]

\* common.py: the exception classes the package declares
ShortBufferError(offset, requested, left) ==
    [kind |-> "ShortBufferError", offset |-> offset,
     requested |-> requested, left |-> left]
NotConsumedError(left) == [kind |-> "NotConsumedError", left |-> left]
UnexpectedTypeError(got, expected) ==
    [kind |-> "UnexpectedTypeError", got |-> got, expected |-> expected]

(***************************************************************************)
(* Bytes, slices, integers and dicts                                       *)
(***************************************************************************)
\* data[offset:offset+size]
\* the position a slice bound i stands for in a sequence of length n: a
\* negative bound counts from the end, and every bound is clamped to 0..n
SliceIndex(i, n) ==
    IF i < 0 THEN (IF i + n < 0 THEN 0 ELSE i + n)
    ELSE IF i > n THEN n ELSE i

Slice(data, offset, size) ==
    SubSeq(data, SliceIndex(offset, Len(data)) + 1,
           SliceIndex(offset + size, Len(data)))

RECURSIVE from_bytes_big(_)
from_bytes_big(b) ==
    IF b = <<>> THEN 0
    ELSE from_bytes_big(SubSeq(b, 1, Len(b) - 1)) * 256 + b[Len(b)]

RECURSIVE from_bytes_little(_)
from_bytes_little(b) ==
    IF b = <<>> THEN 0
    ELSE b[1] + 256 * from_bytes_little(SubSeq(b, 2, Len(b)))

\* x in seq, for a tuple or a list
In(x, seq) == \E i \in 1..Len(seq) : seq[i] = x

\* list.remove(x): the list without the first occurrence of x
Remove(seq, x) ==
    LET i == CHOOSE j \in 1..Len(seq) :
                 seq[j] = x /\ \A k \in 1..(j - 1) : seq[k] # x
    IN  SubSeq(seq, 1, i - 1) \o SubSeq(seq, i + 1, Len(seq))

\* d[k] = v on a dict
DictSet(d, k, v) == [x \in (DOMAIN d) \cup {k} |-> IF x = k THEN v ELSE d[x]]
EmptyDict == [x \in {} |-> 0]

(***************************************************************************)
(* common.py: DigestAlgorithm                                              *)
(***************************************************************************)
sha1 == 4
sha256 == 11
sha384 == 12
sha512 == 13
sm3_256 == 18
DigestAlgorithm == <<sha1, sha256, sha384, sha512, sm3_256>>

(***************************************************************************)
(* cel.py: the type enumerations, in declared order                        *)
(***************************************************************************)
CELBaseType_recnum == 0
CELBaseType_pcr == 1
CELBaseType_nv_index == 2
CELBaseType_digests == 3
CELContentType_cel == 4
CELContentType_pcclient_std == 5
CELContentType_ima_template == 7
CELContentType == <<CELContentType_cel, CELContentType_pcclient_std,
                    CELContentType_ima_template>>
CELMgmtType_cel_version == 1
CELMgmtType_firmware_end == 2
CELMgmtType_cel_timestamp == 128
CELMgmtType_state_trans == 129
CELMgmtType == <<CELMgmtType_cel_version, CELMgmtType_firmware_end,
                 CELMgmtType_cel_timestamp, CELMgmtType_state_trans>>
StateTransType == <<0, 1, 2>>
CELVersionType_major == 0
CELVersionType_minor == 1
CELVersionType == <<CELVersionType_major, CELVersionType_minor>>
CELPCClientSTDType_event_type == 0
CELPCClientSTDType_event_data == 1
CELPCClientSTDType == <<CELPCClientSTDType_event_type,
                        CELPCClientSTDType_event_data>>
CELIMATemplateType_template_name == 0
CELIMATemplateType_template_data == 1
CELIMATemplateType == <<CELIMATemplateType_template_name,
                        CELIMATemplateType_template_data>>

(***************************************************************************)
(* cel.py: TLVParser                                                       *)
(***************************************************************************)
TLVParser(data) == [cls |-> "TLVParser", data |-> data, offset |-> 0]

TLV_left(p) == Len(p.data) - p.offset

\* get_bytes with self._offset = len(b) in place of self._offset += len(b)
TLV_get_bytes_offset_set(p, size) ==
    IF size > TLV_left(p) THEN Raise(p, EOFError)
    ELSE Ok([p EXCEPT !.offset = Len(Slice(p.data, p.offset, size))],
            Slice(p.data, p.offset, size))

TLV_get_bytes(p, size) ==
    IF size > TLV_left(p) THEN Raise(p, EOFError)
    ELSE Ok([p EXCEPT !.offset = @ + Len(Slice(p.data, p.offset, size))],
            Slice(p.data, p.offset, size))

TLV_get_int(p, size, max_size) ==
    IF size > max_size THEN Raise(p, ValueError(<<"valute too large">>))
    ELSE Bind(TLV_get_bytes(p, size), LAMBDA ib :
             Ok(ib.p, from_bytes_big(ib.v)))

\* expect is a tuple of type codes; the empty tuple expects nothing
TLV_get_tl(p, expect) ==
    Bind(TLV_get_bytes(p, 5), LAMBDA b :
        IF expect # <<>> /\ ~In(b.v[1], expect)
        THEN Raise(b.p, ValueError(<<"expected one of", expect,
                                     "got", b.v[1]>>))
        ELSE Ok(b.p, <<b.v[1], from_bytes_big(SubSeq(b.v, 2, 5))>>))

TLV_get_tlv_int(p, max_size, expect) ==
    Bind(TLV_get_tl(p, expect), LAMBDA tl :
    Bind(TLV_get_int(tl.p, tl.v[2], max_size), LAMBDA v :
        Ok(v.p, <<tl.v[1], v.v>>)))

\* the while loop of get_digests
\* the while loop of get_digests without the check that follows it
RECURSIVE TLV_get_digests_loop_unchecked(_, _, _)
RECURSIVE TLV_get_digests_loop(_, _, _)
TLV_get_digests_loop_unchecked(p, left, digs) ==
    IF left > 0
    THEN Bind(TLV_get_tl(p, DigestAlgorithm), LAMBDA tl :
         Bind(TLV_get_bytes(tl.p, tl.v[2]), LAMBDA dig :
             TLV_get_digests_loop_unchecked(dig.p, left - (5 + tl.v[2]),
                                            DictSet(digs, tl.v[1], dig.v))))
    ELSE Ok(p, digs)

TLV_get_digests_loop(p, left, digs) ==
    IF left > 0
    THEN Bind(TLV_get_tl(p, DigestAlgorithm), LAMBDA tl :
         Bind(TLV_get_bytes(tl.p, tl.v[2]), LAMBDA dig :
             TLV_get_digests_loop(dig.p, left - (5 + tl.v[2]),
                                  DictSet(digs, tl.v[1], dig.v))))
    ELSE IF left # 0 THEN Raise(p, ValueError(<<>>))
    ELSE Ok(p, digs)

TLV_get_digests(p) ==
    Bind(TLV_get_tl(p, <<CELBaseType_digests>>), LAMBDA tl :
        TLV_get_digests_loop(tl.p, tl.v[2], EmptyDict))

CELEvent(recnum, handle, digests, content_type) ==
    [recnum |-> recnum, handle |-> handle, digests |-> digests,
     content_type |-> content_type]

\* the while loop of parse_mgmt_version_event
RECURSIVE TLV_version_loop(_, _, _, _)
TLV_version_loop(p, left, major, minor) ==
    IF left # <<>>
    THEN Bind(TLV_get_tlv_int(p, 2, left), LAMBDA tv :
             TLV_version_loop(tv.p, Remove(left, tv.v[1]),
                 IF tv.v[1] = CELVersionType_major THEN tv.v[2] ELSE major,
                 IF tv.v[1] = CELVersionType_major THEN minor
                 ELSE IF tv.v[1] = CELVersionType_minor THEN tv.v[2]
                 ELSE minor))
    ELSE Ok(p, <<major, minor>>)

TLV_parse_mgmt_version_event(p, hdr) ==
    Bind(TLV_version_loop(p, CELVersionType, -1, -1), LAMBDA mm :
        IF TLV_left(mm.p) > 0 THEN Raise(mm.p, ValueError(<<>>))
        ELSE Ok(mm.p, [cls |-> "CELVersionEvent", recnum |-> hdr.recnum,
                       handle |-> hdr.handle, digests |-> hdr.digests,
                       content_type |-> hdr.content_type,
                       type |-> CELMgmtType_cel_version,
                       major |-> mm.v[1], minor |-> mm.v[2]]))

TLV_parse_mgmt_event(p, hdr) ==
    Bind(TLV_get_tl(p, CELMgmtType), LAMBDA tl :
        IF tl.v[1] = CELMgmtType_cel_version
        THEN Bind(TLV_get_bytes(tl.p, tl.v[2]), LAMBDA subdata :
                 Sub(subdata.p, TLV_parse_mgmt_version_event(
                                    TLVParser(subdata.v), hdr)))
        ELSE IF tl.v[1] = CELMgmtType_firmware_end
        THEN Ok(tl.p, [cls |-> "CELFirmwareEndEvent", recnum |-> hdr.recnum,
                       handle |-> hdr.handle, digests |-> hdr.digests,
                       content_type |-> hdr.content_type, type |-> tl.v[1]])
        ELSE IF tl.v[1] = CELMgmtType_cel_timestamp
        THEN Bind(TLV_get_int(tl.p, tl.v[2], 8), LAMBDA ts :
                 Ok(ts.p, [cls |-> "CELTimestampEvent",
                           recnum |-> hdr.recnum, handle |-> hdr.handle,
                           digests |-> hdr.digests,
                           content_type |-> hdr.content_type,
                           type |-> tl.v[1], timestamp |-> ts.v]))
        ELSE IF tl.v[1] = CELMgmtType_state_trans
        THEN Bind(TLV_get_int(tl.p, tl.v[2], 1), LAMBDA st :
                 IF ~In(st.v, StateTransType)
                 THEN Raise(st.p, ValueError(
                                <<st.v, "is not a valid StateTransType">>))
                 ELSE Ok(st.p, [cls |-> "CELStateTransEvent",
                                recnum |-> hdr.recnum, handle |-> hdr.handle,
                                digests |-> hdr.digests,
                                content_type |-> hdr.content_type,
                                type |-> tl.v[1], state_trans |-> st.v]))
        ELSE Raise(tl.p, ValueError(<<>>)))

\* the while loop of parse_pcclient_std_event
RECURSIVE TLV_pcclient_loop(_, _, _, _)
TLV_pcclient_loop(p, left, event_type, event_data) ==
    IF left # <<>>
    THEN Bind(TLV_get_tl(p, left), LAMBDA tl :
             IF tl.v[1] = CELPCClientSTDType_event_type
             THEN Bind(TLV_get_int(tl.p, tl.v[2], 4), LAMBDA et :
                      TLV_pcclient_loop(et.p, Remove(left, tl.v[1]), et.v,
                                        event_data))
             ELSE Bind(TLV_get_bytes(tl.p, tl.v[2]), LAMBDA ed :
                      TLV_pcclient_loop(ed.p, Remove(left, tl.v[1]),
                                        event_type, ed.v)))
    ELSE Ok(p, <<event_type, event_data>>)

TLV_parse_pcclient_std_event(p, hdr) ==
    Bind(TLV_pcclient_loop(p, CELPCClientSTDType, -1, <<>>), LAMBDA td :
        IF TLV_left(td.p) > 0 THEN Raise(td.p, ValueError(<<>>))
        ELSE Ok(td.p, [cls |-> "CELPCClientSTDEvent", recnum |-> hdr.recnum,
                       handle |-> hdr.handle, digests |-> hdr.digests,
                       content_type |-> hdr.content_type,
                       event_type |-> td.v[1], event_data |-> td.v[2]]))

\* the while loop of parse_ima_template_event
RECURSIVE TLV_ima_template_loop(_, _, _, _)
TLV_ima_template_loop(p, left, template_name, template_data) ==
    IF left # <<>>
    THEN Bind(TLV_get_tl(p, left), LAMBDA tl :
         Bind(TLV_get_bytes(tl.p, tl.v[2]), LAMBDA b :
             IF tl.v[1] = CELIMATemplateType_template_name
             THEN TLV_ima_template_loop(b.p, Remove(left, tl.v[1]), b.v,
                                        template_data)
             ELSE TLV_ima_template_loop(b.p, Remove(left, tl.v[1]),
                                        template_name, b.v)))
    ELSE Ok(p, <<template_name, template_data>>)

TLV_parse_ima_template_event(p, hdr) ==
    Bind(TLV_ima_template_loop(p, CELIMATemplateType, <<>>, <<>>), LAMBDA nd :
        IF TLV_left(nd.p) > 0 THEN Raise(nd.p, ValueError(<<>>))
        ELSE Ok(nd.p, [cls |-> "CELIMATemplateEvent", recnum |-> hdr.recnum,
                       handle |-> hdr.handle, digests |-> hdr.digests,
                       content_type |-> hdr.content_type,
                       template_name |-> nd.v[1], template_data |-> nd.v[2]]))

\* the dispatch of parse_event on the content type
TLV_parse_content(subparser, hdr) ==
    IF hdr.content_type = CELContentType_cel
    THEN TLV_parse_mgmt_event(subparser, hdr)
    ELSE IF hdr.content_type = CELContentType_pcclient_std
    THEN TLV_parse_pcclient_std_event(subparser, hdr)
    ELSE IF hdr.content_type = CELContentType_ima_template
    THEN TLV_parse_ima_template_event(subparser, hdr)
    ELSE Raise(subparser, ValueError(<<>>))

TLV_parse_event(p) ==
    Bind(TLV_get_tlv_int(p, 8, <<CELBaseType_recnum>>), LAMBDA recnum :
    Bind(TLV_get_tlv_int(recnum.p, 4,
             <<CELBaseType_pcr, CELBaseType_nv_index>>), LAMBDA handle :
    Bind(TLV_get_digests(handle.p), LAMBDA digests :
    Bind(TLV_get_tl(digests.p, CELContentType), LAMBDA ctl :
    Bind(TLV_get_bytes(ctl.p, ctl.v[2]), LAMBDA subdata :
        Sub(subdata.p, TLV_parse_content(TLVParser(subdata.v),
                CELEvent(recnum.v[2], handle.v[2], digests.v, ctl.v[1]))))))))

(***************************************************************************)
(* uefi/base.py: UEFIEventType and the event handler registry              *)
(***************************************************************************)
\* The members of UEFIEventType below 0x80000000: ev_post_code = 1 and
\* ev_no_action = 3 up to ev_omit_boot_device_events = 0x12.  The ev_efi_*
\* members lie at or above 0x80000000, beyond TLC's integers.
ev_post_code == 1
ev_no_action == 3
ev_separator == 4
ev_action == 5
ev_event_tag == 6
ev_s_crtm_contents == 7
ev_s_crtm_version == 8
ev_ipl == 13
ev_omit_boot_device_events == 18
UEFIEventType == {ev_post_code} \cup (ev_no_action..ev_omit_boot_device_events)

\* Optional[int]: None, or the value in a 1-tuple
None == <<>>
Some(x) == <<x>>

\* A registry key is event_type alone, <<event_type>>, or the tuple
\* (event_type, pcr), <<event_type, pcr>>.
register_event_handler(handlers, event_type, handler, pcr) ==
    LET key == IF pcr # None THEN <<event_type, pcr[1]>> ELSE <<event_type>>
    IN  DictSet(handlers, key, handler)

\* lookup_event_handler trying the key event_type before (event_type, pcr)
lookup_event_handler_scalar_first(handlers, event_type, pcr) ==
    IF <<event_type>> \in DOMAIN handlers
    THEN handlers[<<event_type>>]
    ELSE IF <<event_type, pcr>> \in DOMAIN handlers
    THEN handlers[<<event_type, pcr>>]
    ELSE "UEFIUnknownEvent"

lookup_event_handler(handlers, event_type, pcr) ==
    IF <<event_type, pcr>> \in DOMAIN handlers
    THEN handlers[<<event_type, pcr>>]
    ELSE IF <<event_type>> \in DOMAIN handlers
    THEN handlers[<<event_type>>]
    ELSE "UEFIUnknownEvent"

\* uefi/events.py: the registrations made at import, in order (those of
\* the event types below 0x80000000)
events_registrations ==
    << <<ev_s_crtm_contents, "UEFI_EV_S_CRTM_ContentsEvent", Some(0)>>,
       <<ev_s_crtm_version, "UEFI_EV_S_CRTM_VersionEvent", Some(0)>>,
       <<ev_separator, "UEFI_EV_SeparatorEvent", None>>,
       <<ev_ipl, "UEFI_EV_IPLEvent", None>>,
       <<ev_post_code, "UEFI_EV_PostCodeEvent", None>>,
       <<ev_event_tag, "UEFI_EV_EventTagEvent", None>> >>

RECURSIVE register_all(_, _)
register_all(handlers, regs) ==
    IF regs = <<>> THEN handlers
    ELSE register_all(
             register_event_handler(handlers, regs[1][1], regs[1][2],
                                    regs[1][3]),
             Tail(regs))

(***************************************************************************)
(* uefi/base.py: UEFIParser                                                *)
(***************************************************************************)
UEFIParser(data) ==
    [cls |-> "UEFIParser", data |-> data, offset |-> 0, uintn |-> 2,
     digest_sizes |-> EmptyDict]

UEFI_left(p) == Len(p.data) - p.offset

UEFI_uintn_size(p) ==
    IF p.uintn = 2 THEN Ok(p, 8)
    ELSE IF p.uintn = 1 THEN Ok(p, 4)
    ELSE Raise(p, AttributeError)

\* get_bytes that returns the bytes and leaves the offset where it was
UEFI_get_bytes_no_advance(p, size) ==
    IF size > UEFI_left(p) THEN Raise(p, EOFError)
    ELSE IF size < 0 THEN Raise(p, ValueError(<<>>))
    ELSE Ok(p, Slice(p.data, p.offset, size))

UEFI_get_bytes(p, size) ==
    IF size > UEFI_left(p) THEN Raise(p, EOFError)
    ELSE IF size < 0 THEN Raise(p, ValueError(<<>>))
    ELSE Ok([p EXCEPT !.offset = @ + size], Slice(p.data, p.offset, size))

UEFI_get_int(p, size) ==
    Bind(UEFI_get_bytes(p, size), LAMBDA vb :
        Ok(vb.p, from_bytes_little(vb.v)))

UEFI_get_uint32(p) == UEFI_get_int(p, 4)

UEFI_get_len_bytes(p) ==
    Bind(UEFI_get_uint32(p), LAMBDA vl : UEFI_get_bytes(vl.p, vl.v))

UEFI_get_subparser(p, data) == [UEFIParser(data) EXCEPT !.uintn = p.uintn]

\* DigestAlgorithm(algid): a ValueError for a code that is no member
DigestAlgorithm_of(p, algid) ==
    IF ~In(algid, DigestAlgorithm)
    THEN Raise(p, ValueError(<<algid, "is not a valid DigestAlgorithm">>))
    ELSE Ok(p, algid)

\* self._digest_sizes.get(alg, 20): the size of sha1 for an algorithm the
\* table lacks
UEFI_digest_size_default(p, alg) ==
    IF alg \notin DOMAIN p.digest_sizes THEN Ok(p, 20)
    ELSE Ok(p, p.digest_sizes[alg])

\* self._digest_sizes[alg]: a KeyError for an algorithm the table lacks
UEFI_digest_size(p, alg) ==
    IF alg \notin DOMAIN p.digest_sizes THEN Raise(p, KeyError(<<alg>>))
    ELSE Ok(p, p.digest_sizes[alg])

\* the while loop of get_digests
RECURSIVE UEFI_get_digests_loop(_, _, _)
UEFI_get_digests_loop(p, num_digs, digests) ==
    IF num_digs # 0
    THEN Bind(UEFI_get_int(p, 2), LAMBDA algid :
         Bind(DigestAlgorithm_of(algid.p, algid.v), LAMBDA alg :
         Bind(UEFI_digest_size(alg.p, alg.v), LAMBDA digsize :
         Bind(UEFI_get_bytes(digsize.p, digsize.v), LAMBDA digest :
             UEFI_get_digests_loop(digest.p, num_digs - 1,
                 DictSet(digests, alg.v, digest.v))))))
    ELSE Ok(p, digests)

UEFI_get_digests(p) ==
    Bind(UEFI_get_uint32(p), LAMBDA num_digs :
        UEFI_get_digests_loop(num_digs.p, num_digs.v, EmptyDict))

\* the while loop of parse_header_event, on the subparser
RECURSIVE UEFI_digest_sizes_loop(_, _, _)
UEFI_digest_sizes_loop(sp, num_digs, digest_sizes) ==
    IF num_digs # 0
    THEN Bind(UEFI_get_int(sp, 2), LAMBDA algid :
         Bind(UEFI_get_int(algid.p, 2), LAMBDA algsize :
         Bind(DigestAlgorithm_of(algsize.p, algid.v), LAMBDA alg :
             UEFI_digest_sizes_loop(alg.p, num_digs - 1,
                 DictSet(digest_sizes, alg.v, algsize.v)))))
    ELSE Ok(sp, digest_sizes)

\* the reads of parse_header_event on the subparser, up to vendor_info_size
UEFI_parse_header_sub(sp) ==
    Bind(UEFI_get_bytes(sp, 16), LAMBDA signature :
    Bind(UEFI_get_uint32(signature.p), LAMBDA platform_class :
    Bind(UEFI_get_int(platform_class.p, 1), LAMBDA minor :
    Bind(UEFI_get_int(minor.p, 1), LAMBDA major :
    Bind(UEFI_get_int(major.p, 1), LAMBDA errata :
    Bind(UEFI_get_int(errata.p, 1), LAMBDA uintn_size :
    Bind(UEFI_get_uint32(uintn_size.p), LAMBDA num_digs :
    Bind(UEFI_digest_sizes_loop(num_digs.p, num_digs.v, EmptyDict),
         LAMBDA digest_sizes :
    Bind(UEFI_get_int(digest_sizes.p, 1), LAMBDA vendor_info_size :
        Ok(vendor_info_size.p,
           [signature |-> signature.v, platform_class |-> platform_class.v,
            spec_version_minor |-> minor.v, spec_version_major |-> major.v,
            spec_errata |-> errata.v, uintn_size |-> uintn_size.v,
            digest_sizes |-> digest_sizes.v,
            vendor_info_size |-> vendor_info_size.v]))))))))))

\* parse_header_event without self._digest_sizes = digest_sizes
UEFI_parse_header_build_no_table(self, pcr, event_type, digest, sub) ==
    IF event_type \notin UEFIEventType
    THEN Raise([self EXCEPT !.uintn = sub.uintn_size],
               ValueError(<<event_type, "is not a valid UEFIEventType">>))
    ELSE Ok([self EXCEPT !.uintn = sub.uintn_size],
            [cls |-> "SpecIDEvent", pcr |-> pcr, event_type |-> event_type,
             digests |-> DictSet(EmptyDict, sha1, digest),
             signature |-> sub.signature,
             platform_class |-> sub.platform_class,
             spec_version_minor |-> sub.spec_version_minor,
             spec_version_major |-> sub.spec_version_major,
             spec_errata |-> sub.spec_errata,
             uintn_size |-> sub.uintn_size,
             digest_sizes |-> sub.digest_sizes,
             vendor_info_size |-> sub.vendor_info_size])

\* the end of parse_header_event: self takes the header's width and table,
\* then the event is built
UEFI_parse_header_build(self, pcr, event_type, digest, sub) ==
    IF event_type \notin UEFIEventType
    THEN Raise([self EXCEPT !.uintn = sub.uintn_size,
                            !.digest_sizes = sub.digest_sizes],
               ValueError(<<event_type, "is not a valid UEFIEventType">>))
    ELSE Ok([self EXCEPT !.uintn = sub.uintn_size,
                         !.digest_sizes = sub.digest_sizes],
            [cls |-> "SpecIDEvent", pcr |-> pcr, event_type |-> event_type,
             digests |-> DictSet(EmptyDict, sha1, digest),
             signature |-> sub.signature,
             platform_class |-> sub.platform_class,
             spec_version_minor |-> sub.spec_version_minor,
             spec_version_major |-> sub.spec_version_major,
             spec_errata |-> sub.spec_errata,
             uintn_size |-> sub.uintn_size,
             digest_sizes |-> sub.digest_sizes,
             vendor_info_size |-> sub.vendor_info_size])

UEFI_parse_header_event(p) ==
    Bind(UEFI_get_uint32(p), LAMBDA pcr :
    Bind(UEFI_get_uint32(pcr.p), LAMBDA event_type :
    Bind(UEFI_get_bytes(event_type.p, 20), LAMBDA digest :
    Bind(UEFI_get_len_bytes(digest.p), LAMBDA subdata :
    Bind(Sub(subdata.p, UEFI_parse_header_sub(
                            UEFI_get_subparser(subdata.p, subdata.v))),
         LAMBDA sub :
        UEFI_parse_header_build(sub.p, pcr.v, event_type.v, digest.v,
                                sub.v))))))

(***************************************************************************)
(* uefi/base.py: get_guid, get_utf16 and the variable classes              *)
(***************************************************************************)
Reverse(b) == [i \in 1..Len(b) |-> b[Len(b) + 1 - i]]

\* UUID(bytes_le=b): a UUID is held as its 16 bytes in big-endian order, so
\* the first three fields of b are reversed
UUID_bytes_le(b) ==
    Reverse(SubSeq(b, 1, 4)) \o Reverse(SubSeq(b, 5, 6))
        \o Reverse(SubSeq(b, 7, 8)) \o SubSeq(b, 9, 16)

UEFI_get_guid(p) ==
    Bind(UEFI_get_bytes(p, 16), LAMBDA b : Ok(b.p, UUID_bytes_le(b.v)))

\* A loop that the code bounds by nothing but its reads is given a budget
\* of iterations, one more than the buffer has bytes; a loop still running
\* when the budget is spent ends the call with this outcome, which is no
\* exception of the code.
Running(p) == Raise(p, [kind |-> "still running", args |-> <<>>])

Budget(p) == Len(p.data) + 1

\* the while True loop of get_utf16
RECURSIVE UEFI_get_utf16_loop(_, _, _)
UEFI_get_utf16_loop(p, b, budget) ==
    IF budget = 0 THEN Running(p)
    ELSE Bind(UEFI_get_bytes(p, 2), LAMBDA c :
             IF c.v = <<0, 0>> THEN Ok(c.p, b \o c.v)
             ELSE UEFI_get_utf16_loop(c.p, b \o c.v, budget - 1))

UEFI_get_utf16(p) == UEFI_get_utf16_loop(p, <<>>, Budget(p))

UEFIUnknownVariable_parse(sp) ==
    Bind(UEFI_get_bytes(sp, UEFI_left(sp)), LAMBDA data :
        Ok(data.p, [cls |-> "UEFIUnknownVariable", data |-> data.v]))

(***************************************************************************)
(* uefi/secureboot.py                                                      *)
(***************************************************************************)
SecureBootVariable_parse(sp) ==
    Bind(UEFI_get_int(sp, 1), LAMBDA enabled :
        Ok(enabled.p, [cls |-> "SecureBootVariable",
                       enabled |-> enabled.v # 0]))

\* UnknownSignatureData.parse without the owner: it returns the bytes left
UnknownSignatureData_parse_no_owner(sp) ==
    Bind(UEFI_get_bytes(sp, UEFI_left(sp)), LAMBDA signature_data :
        Ok(signature_data.p,
           [cls |-> "UnknownSignatureData", signature_owner |-> <<>>,
            signature_data |-> signature_data.v]))

UnknownSignatureData_parse(sp) ==
    Bind(UEFI_get_guid(sp), LAMBDA signature_owner :
    Bind(UEFI_get_bytes(signature_owner.p, UEFI_left(signature_owner.p)),
         LAMBDA signature_data :
        Ok(signature_data.p,
           [cls |-> "UnknownSignatureData",
            signature_owner |-> signature_owner.v,
            signature_data |-> signature_data.v])))

X509SignatureData_parse(sp) ==
    Bind(UEFI_get_guid(sp), LAMBDA signature_owner :
    Bind(UEFI_get_bytes(signature_owner.p, UEFI_left(signature_owner.p)),
         LAMBDA certificate :
        Ok(certificate.p,
           [cls |-> "X509SignatureData",
            signature_owner |-> signature_owner.v,
            certificate |-> certificate.v])))

\* UUID("a5c059a1-94e4-4aa7-87b5-ab155c2bf072")
UUID_x509 ==
    <<165, 192, 89, 161, 148, 228, 74, 167, 135, 181, 171, 21, 92, 43, 240,
      114>>

\* _signature_type_handlers after the import of uefi.secureboot
signature_type_handlers == DictSet(EmptyDict, UUID_x509, "X509SignatureData")

lookup_signature_type_handler(signature_type) ==
    IF signature_type \in DOMAIN signature_type_handlers
    THEN signature_type_handlers[signature_type]
    ELSE "UnknownSignatureData"

\* handler.parse(subparser) for the signature class named cls
SignatureData_parse(cls, sp) ==
    IF cls = "X509SignatureData" THEN X509SignatureData_parse(sp)
    ELSE UnknownSignatureData_parse(sp)

\* the while list_left loop of SignatureList.parse
RECURSIVE SignatureList_loop(_, _, _, _, _, _)
SignatureList_loop(p, signature_type, signature_size, list_left, signatures, budget) ==
    IF list_left = 0 THEN Ok(p, signatures)
    ELSE IF budget = 0 THEN Running(p)
    ELSE Bind(UEFI_get_bytes(p, signature_size), LAMBDA subdata :
         Bind(Sub(subdata.p,
                  SignatureData_parse(
                      lookup_signature_type_handler(signature_type),
                      UEFI_get_subparser(subdata.p, subdata.v))),
              LAMBDA data :
             SignatureList_loop(data.p, signature_type, signature_size,
                 list_left - Len(subdata.v), Append(signatures, data.v),
                 budget - 1)))

\* SignatureList.parse that also takes the header size off the list size
SignatureList_parse_less_header(p) ==
    Bind(UEFI_get_guid(p), LAMBDA signature_type :
    Bind(UEFI_get_uint32(signature_type.p), LAMBDA list_size :
    Bind(UEFI_get_uint32(list_size.p), LAMBDA header_size :
    Bind(UEFI_get_uint32(header_size.p), LAMBDA signature_size :
    Bind(UEFI_get_bytes(signature_size.p, header_size.v),
         LAMBDA signature_header :
    Bind(SignatureList_loop(signature_header.p, signature_type.v,
             signature_size.v,
             list_size.v - (16 + 4 + 4 + 4) - header_size.v, <<>>,
             Budget(p)),
         LAMBDA signatures :
        Ok(signatures.p,
           [cls |-> "SignatureList", signature_type |-> signature_type.v,
            signature_header |-> signature_header.v,
            signatures |-> signatures.v])))))))

SignatureList_parse(p) ==
    Bind(UEFI_get_guid(p), LAMBDA signature_type :
    Bind(UEFI_get_uint32(signature_type.p), LAMBDA list_size :
    Bind(UEFI_get_uint32(list_size.p), LAMBDA header_size :
    Bind(UEFI_get_uint32(header_size.p), LAMBDA signature_size :
    Bind(UEFI_get_bytes(signature_size.p, header_size.v),
         LAMBDA signature_header :
    Bind(SignatureList_loop(signature_header.p, signature_type.v,
             signature_size.v, list_size.v - (16 + 4 + 4 + 4), <<>>,
             Budget(p)),
         LAMBDA signatures :
        Ok(signatures.p,
           [cls |-> "SignatureList", signature_type |-> signature_type.v,
            signature_header |-> signature_header.v,
            signatures |-> signatures.v])))))))

\* the while parser.left loop of SignaturesVariable.parse
RECURSIVE SignaturesVariable_loop(_, _)
SignaturesVariable_loop(p, sigs) ==
    IF UEFI_left(p) # 0
    THEN Bind(SignatureList_parse(p), LAMBDA entry :
             SignaturesVariable_loop(entry.p, Append(sigs, entry.v)))
    ELSE Ok(p, sigs)

SignaturesVariable_parse(sp) ==
    Bind(SignaturesVariable_loop(sp, <<>>), LAMBDA sigs :
        Ok(sigs.p, [cls |-> "SignaturesVariable",
                    signature_lists |-> sigs.v]))

(***************************************************************************)
(* uefi/device_path.py                                                     *)
(***************************************************************************)
DeviceType_hardware == 1
DeviceType_acpi == 2
DeviceType_messaging == 3
DeviceType_media == 4
DeviceType_bios_boot_speciciation == 5
DeviceType_end == 127
DeviceType ==
    {DeviceType_hardware, DeviceType_acpi, DeviceType_messaging,
     DeviceType_media, DeviceType_bios_boot_speciciation, DeviceType_end}

BaseDeviceSubType_entire_end == 255
BaseDeviceSubType == {1, BaseDeviceSubType_entire_end}
AcpiDeviceSubType_acpi == 1
AcpiDeviceSubType == 1..4
HardwareDeviceSubType_pci == 1
HardwareDeviceSubType == 1..6
MsgDeviceSubType_nvme_namespace == 23
MsgDeviceSubType == {MsgDeviceSubType_nvme_namespace}
MediaDeviceSubType_harddrive == 1
MediaDeviceSubType_filepath == 4
MediaDeviceSubType == {MediaDeviceSubType_harddrive, MediaDeviceSubType_filepath}
PartitionSignatureType == 0..2

\* E(value) for an IntEnum with the members members: a ValueError, with
\* the message name, for a value that is no member
Enum_of(p, value, members, name) ==
    IF value \notin members
    THEN Raise(p, ValueError(<<value, name>>))
    ELSE Ok(p, value)

DevicePath(device_type, device_subtype) ==
    [device_type |-> device_type, device_subtype |-> device_subtype]

UnknownDevicePath_parse(sp, hdr) ==
    Bind(UEFI_get_bytes(sp, UEFI_left(sp)), LAMBDA data :
        Ok(data.p, [cls |-> "UnknownDevicePath",
                    device_type |-> hdr.device_type,
                    device_subtype |-> hdr.device_subtype,
                    data |-> data.v]))

AcpiDevicePath_parse(sp, hdr) ==
    Bind(UEFI_get_uint32(sp), LAMBDA hid :
    Bind(UEFI_get_uint32(hid.p), LAMBDA uid :
    Bind(Enum_of(uid.p, hdr.device_subtype, AcpiDeviceSubType,
                 "is not a valid AcpiDeviceSubType"), LAMBDA device_subtype :
        Ok(device_subtype.p,
           [cls |-> "AcpiDevicePath", device_type |-> hdr.device_type,
            device_subtype |-> device_subtype.v,
            hid |-> hid.v, uid |-> uid.v]))))

PCIDevicePath_parse(sp, hdr) ==
    Bind(UEFI_get_int(sp, 1), LAMBDA function :
    Bind(UEFI_get_int(function.p, 1), LAMBDA device :
    Bind(Enum_of(device.p, hdr.device_subtype, HardwareDeviceSubType,
                 "is not a valid HardwareDeviceSubType"), LAMBDA device_subtype :
        Ok(device_subtype.p,
           [cls |-> "PCIDevicePath", device_type |-> hdr.device_type,
            device_subtype |-> device_subtype.v,
            function |-> function.v, device |-> device.v]))))

MsgNVMENamespaceDevicePath_parse(sp, hdr) ==
    Bind(UEFI_get_uint32(sp), LAMBDA namespace_id :
    Bind(UEFI_get_int(namespace_id.p, 8), LAMBDA namespace_uuid :
    Bind(Enum_of(namespace_uuid.p, hdr.device_subtype, MsgDeviceSubType,
                 "is not a valid MsgDeviceSubType"), LAMBDA device_subtype :
        Ok(device_subtype.p,
           [cls |-> "MsgNVMENamespaceDevicePath",
            device_type |-> hdr.device_type,
            device_subtype |-> device_subtype.v,
            namespace_id |-> namespace_id.v,
            namespace_uuid |-> namespace_uuid.v]))))

\* the signature of HarddriveDevicePath.parse by signature_type
Harddrive_signature(signature_type, sb) ==
    IF signature_type = 0 THEN None
    ELSE IF signature_type = 1 THEN Some(from_bytes_big(SubSeq(sb, 1, 4)))
    ELSE Some(UUID_bytes_le(sb))

HarddriveDevicePath_parse(sp, hdr) ==
    Bind(UEFI_get_uint32(sp), LAMBDA partition_number :
    Bind(UEFI_get_int(partition_number.p, 8), LAMBDA partition_start :
    Bind(UEFI_get_int(partition_start.p, 8), LAMBDA partition_size :
    Bind(UEFI_get_bytes(partition_size.p, 16), LAMBDA sb :
    Bind(UEFI_get_int(sb.p, 1), LAMBDA mbr_type :
    Bind(UEFI_get_int(mbr_type.p, 1), LAMBDA raw_type :
    Bind(Enum_of(raw_type.p, raw_type.v, PartitionSignatureType,
                 "is not a valid PartitionSignatureType"), LAMBDA signature_type :
    Bind(Enum_of(signature_type.p, hdr.device_subtype, MediaDeviceSubType,
                 "is not a valid MediaDeviceSubType"), LAMBDA device_subtype :
        Ok(device_subtype.p,
           [cls |-> "HarddriveDevicePath", device_type |-> hdr.device_type,
            device_subtype |-> device_subtype.v,
            partition_number |-> partition_number.v,
            partition_start |-> partition_start.v,
            partition_size |-> partition_size.v,
            signature |-> Harddrive_signature(signature_type.v, sb.v),
            mbr_type |-> mbr_type.v,
            signature_type |-> signature_type.v])))))))))

FileDevicePath_parse(sp, hdr) ==
    Bind(UEFI_get_bytes(sp, UEFI_left(sp)), LAMBDA path_name :
    Bind(Enum_of(path_name.p, hdr.device_subtype, MediaDeviceSubType,
                 "is not a valid MediaDeviceSubType"), LAMBDA device_subtype :
        Ok(device_subtype.p,
           [cls |-> "FileDevicePath", device_type |-> hdr.device_type,
            device_subtype |-> device_subtype.v,
            path_name |-> path_name.v])))

EntireEndDevicePath_parse(sp, hdr) ==
    Bind(Enum_of(sp, hdr.device_subtype, BaseDeviceSubType,
                 "is not a valid BaseDeviceSubType"), LAMBDA device_subtype :
        Ok(device_subtype.p,
           [cls |-> "EntireEndDevicePath", device_type |-> hdr.device_type,
            device_subtype |-> device_subtype.v]))

\* _device_path_handlers after the import of uefi.device_path
device_path_handlers ==
    [k \in {<<DeviceType_acpi, AcpiDeviceSubType_acpi>>,
            <<DeviceType_hardware, HardwareDeviceSubType_pci>>,
            <<DeviceType_messaging, MsgDeviceSubType_nvme_namespace>>,
            <<DeviceType_media, MediaDeviceSubType_harddrive>>,
            <<DeviceType_media, MediaDeviceSubType_filepath>>,
            <<DeviceType_end, BaseDeviceSubType_entire_end>>} |->
        CASE k = <<DeviceType_acpi, AcpiDeviceSubType_acpi>> ->
                 "AcpiDevicePath"
          [] k = <<DeviceType_hardware, HardwareDeviceSubType_pci>> ->
                 "PCIDevicePath"
          [] k = <<DeviceType_messaging, MsgDeviceSubType_nvme_namespace>> ->
                 "MsgNVMENamespaceDevicePath"
          [] k = <<DeviceType_media, MediaDeviceSubType_harddrive>> ->
                 "HarddriveDevicePath"
          [] k = <<DeviceType_media, MediaDeviceSubType_filepath>> ->
                 "FileDevicePath"
          [] OTHER -> "EntireEndDevicePath"]

lookup_device_path_handler(device_type, device_subtype) ==
    IF <<device_type, device_subtype>> \in DOMAIN device_path_handlers
    THEN device_path_handlers[<<device_type, device_subtype>>]
    ELSE "UnknownDevicePath"

\* handler.parse(subparser, header) for the device path class named cls
DevicePath_parse(cls, sp, hdr) ==
    CASE cls = "AcpiDevicePath" -> AcpiDevicePath_parse(sp, hdr)
      [] cls = "PCIDevicePath" -> PCIDevicePath_parse(sp, hdr)
      [] cls = "MsgNVMENamespaceDevicePath" ->
             MsgNVMENamespaceDevicePath_parse(sp, hdr)
      [] cls = "HarddriveDevicePath" -> HarddriveDevicePath_parse(sp, hdr)
      [] cls = "FileDevicePath" -> FileDevicePath_parse(sp, hdr)
      [] cls = "EntireEndDevicePath" -> EntireEndDevicePath_parse(sp, hdr)
      [] OTHER -> UnknownDevicePath_parse(sp, hdr)

\* the while parser.left loop of parse_device_path
RECURSIVE parse_device_path_loop(_, _, _)
parse_device_path_loop(p, entries, budget) ==
    IF UEFI_left(p) = 0 THEN Ok(p, entries)
    ELSE IF budget = 0 THEN Running(p)
    ELSE Bind(UEFI_get_int(p, 1), LAMBDA raw_type :
         Bind(UEFI_get_int(raw_type.p, 1), LAMBDA device_subtype :
         Bind(Enum_of(device_subtype.p, raw_type.v, DeviceType,
                      "is not a valid DeviceType"), LAMBDA device_type :
         Bind(UEFI_get_int(device_type.p, 2), LAMBDA dl :
         Bind(UEFI_get_bytes(dl.p, dl.v - 4), LAMBDA subdata :
         Bind(Sub(subdata.p,
                  DevicePath_parse(
                      lookup_device_path_handler(device_type.v,
                                                 device_subtype.v),
                      UEFI_get_subparser(subdata.p, subdata.v),
                      DevicePath(device_type.v, device_subtype.v))),
              LAMBDA dp :
             parse_device_path_loop(dp.p, Append(entries, dp.v),
                                    budget - 1)))))))

parse_device_path(p) == parse_device_path_loop(p, <<>>, Budget(p))

UEFIBootVariable_parse(sp) ==
    Bind(UEFI_get_uint32(sp), LAMBDA attributes :
    Bind(UEFI_get_int(attributes.p, 2), LAMBDA fpl :
    Bind(UEFI_get_utf16(fpl.p), LAMBDA description :
    Bind(UEFI_get_bytes(description.p, fpl.v), LAMBDA subdata :
    Bind(Sub(subdata.p,
             parse_device_path(UEFI_get_subparser(subdata.p, subdata.v))),
         LAMBDA file_path_list :
    Bind(UEFI_get_bytes(file_path_list.p, UEFI_left(file_path_list.p)),
         LAMBDA optional_data :
        Ok(optional_data.p,
           [cls |-> "UEFIBootVariable", attributes |-> attributes.v,
            description |-> description.v,
            file_path_list |-> file_path_list.v,
            optional_data |-> optional_data.v])))))))

\* the while parser.left loop of UEFIBootOrderVariable.parse
RECURSIVE UEFIBootOrderVariable_loop(_, _)
UEFIBootOrderVariable_loop(sp, entries) ==
    IF UEFI_left(sp) # 0
    THEN Bind(UEFI_get_int(sp, 2), LAMBDA entry :
             UEFIBootOrderVariable_loop(entry.p, Append(entries, entry.v)))
    ELSE Ok(sp, entries)

UEFIBootOrderVariable_parse(sp) ==
    Bind(UEFIBootOrderVariable_loop(sp, <<>>), LAMBDA entries :
        Ok(entries.p, [cls |-> "UEFIBootOrderVariable",
                       boot_order |-> entries.v]))

(***************************************************************************)
(* The variable registry of uefi/base.py as the imports of                 *)
(* uefi.secureboot and uefi.device_path leave it                           *)
(***************************************************************************)
\* UUID("8be4df61-93ca-11d2-aa0d-00e098032b8c")
UUID_global ==
    <<139, 228, 223, 97, 147, 202, 17, 210, 170, 13, 0, 224, 152, 3, 43,
      140>>
\* UUID("d719b2cb-3d3a-4596-a3bc-dad00e67656f")
UUID_image_security ==
    <<215, 25, 178, 203, 61, 58, 69, 150, 163, 188, 218, 208, 14, 103, 101,
      111>>

\* s.encode("utf-16-le") for an ASCII string given as its bytes
RECURSIVE utf_16_le(_)
utf_16_le(s) == IF s = <<>> THEN <<>> ELSE <<Head(s), 0>> \o utf_16_le(Tail(s))

\* the ASCII of "SecureBoot", "PK", "KEK", "db", "dbx", "BootOrder", "Boot"
ascii_SecureBoot == <<83, 101, 99, 117, 114, 101, 66, 111, 111, 116>>
ascii_PK == <<80, 75>>
ascii_KEK == <<75, 69, 75>>
ascii_db == <<100, 98>>
ascii_dbx == <<100, 98, 120>>
ascii_BootOrder == <<66, 111, 111, 116, 79, 114, 100, 101, 114>>
ascii_Boot == <<66, 111, 111, 116>>

\* the ASCII of the digits of "%04X"
HexDigits == (48..57) \cup (65..70)

\* unicode_name is f"Boot{order:04X}" in UTF-16 for an order in
\* range(0, 65535)
IsBootName(unicode_name) ==
    /\ Len(unicode_name) = 16
    /\ SubSeq(unicode_name, 1, 8) = utf_16_le(ascii_Boot)
    /\ \A i \in 0..3 : /\ unicode_name[9 + 2 * i] \in HexDigits
                       /\ unicode_name[10 + 2 * i] = 0
    /\ \E i \in 0..3 : unicode_name[9 + 2 * i] # 70

lookup_variable_handler(variable_name, unicode_name) ==
    IF variable_name = UUID_global
           /\ unicode_name = utf_16_le(ascii_SecureBoot)
    THEN "SecureBootVariable"
    ELSE IF variable_name = UUID_global
                /\ unicode_name \in {utf_16_le(ascii_PK), utf_16_le(ascii_KEK)}
    THEN "SignaturesVariable"
    ELSE IF variable_name = UUID_image_security
                /\ unicode_name \in {utf_16_le(ascii_db), utf_16_le(ascii_dbx)}
    THEN "SignaturesVariable"
    ELSE IF variable_name = UUID_global /\ IsBootName(unicode_name)
    THEN "UEFIBootVariable"
    ELSE IF variable_name = UUID_global
                /\ unicode_name = utf_16_le(ascii_BootOrder)
    THEN "UEFIBootOrderVariable"
    ELSE "UEFIUnknownVariable"

\* handler.parse(subparser) for the variable class named cls
Variable_parse(cls, sp) ==
    CASE cls = "SecureBootVariable" -> SecureBootVariable_parse(sp)
      [] cls = "SignaturesVariable" -> SignaturesVariable_parse(sp)
      [] cls = "UEFIBootVariable" -> UEFIBootVariable_parse(sp)
      [] cls = "UEFIBootOrderVariable" -> UEFIBootOrderVariable_parse(sp)
      [] OTHER -> UEFIUnknownVariable_parse(sp)

(***************************************************************************)
(* uefi/base.py and uefi/events.py: the events and their handlers          *)
(***************************************************************************)
UEFIEvent(pcr, event_type, digests) ==
    [pcr |-> pcr, event_type |-> event_type, digests |-> digests]

\* a UEFIEvent subclass with one more field, built from the header
EventWith(cls, hdr, name, value) ==
    [x \in {"cls", "pcr", "event_type", "digests", name} |->
        IF x = "cls" THEN cls
        ELSE IF x = name THEN value
        ELSE hdr[x]]

\* the parse classmethod of the handlers that read the whole payload:
\* UEFIUnknownEvent (base.py), and in events.py UEFI_EV_S_CRTM_VersionEvent,
\* UEFI_EV_SeparatorEvent, UEFI_EV_IPLEvent, UEFI_EV_PostCodeEvent
RawEvent_parse(cls, name, sp, hdr) ==
    Bind(UEFI_get_bytes(sp, UEFI_left(sp)), LAMBDA b :
        Ok(b.p, EventWith(cls, hdr, name, b.v)))

UEFIUnknownEvent_parse(sp, hdr) ==
    RawEvent_parse("UEFIUnknownEvent", "event_data", sp, hdr)

UEFI_EV_S_CRTM_ContentsEvent_parse(sp, hdr) ==
    Bind(UEFI_get_int(sp, 1), LAMBDA ds :
    Bind(UEFI_get_bytes(ds.p, ds.v), LAMBDA blob_description :
    Bind(UEFI_get_int(blob_description.p, 8), LAMBDA blob_base :
    Bind(UEFI_get_int(blob_base.p, 8), LAMBDA blob_length :
        Ok(blob_length.p,
           [cls |-> "UEFI_EV_S_CRTM_ContentsEvent", pcr |-> hdr.pcr,
            event_type |-> hdr.event_type, digests |-> hdr.digests,
            blob_description |-> blob_description.v,
            blob_base |-> blob_base.v, blob_length |-> blob_length.v])))))

UEFI_EV_EventTagEvent_parse(sp, hdr) ==
    Bind(UEFI_get_uint32(sp), LAMBDA tagged_event_id :
    Bind(UEFI_get_len_bytes(tagged_event_id.p), LAMBDA tagged_event_data :
        Ok(tagged_event_data.p,
           [cls |-> "UEFI_EV_EventTagEvent", pcr |-> hdr.pcr,
            event_type |-> hdr.event_type, digests |-> hdr.digests,
            tagged_event_id |-> tagged_event_id.v,
            tagged_event_data |-> tagged_event_data.v])))

\* if parser.left: raise ValueError
Left_check(p, v) ==
    IF UEFI_left(p) # 0 THEN Raise(p, ValueError(<<>>)) ELSE Ok(p, v)

UEFI_EV_EFI_PlatformFirmwareBlobEvent_parse(sp, hdr) ==
    Bind(UEFI_get_int(sp, 8), LAMBDA blob_base :
    Bind(UEFI_get_int(blob_base.p, 8), LAMBDA blob_length :
        Ok(blob_length.p,
           [cls |-> "UEFI_EV_EFI_PlatformFirmwareBlobEvent", pcr |-> hdr.pcr,
            event_type |-> hdr.event_type, digests |-> hdr.digests,
            blob_base |-> blob_base.v, blob_length |-> blob_length.v])))

UEFIVariableDataEvent_parse(sp, hdr) ==
    Bind(UEFI_get_guid(sp), LAMBDA variable_name :
    Bind(UEFI_get_int(variable_name.p, 8), LAMBDA unlen :
    Bind(UEFI_get_int(unlen.p, 8), LAMBDA vdlen :
    Bind(UEFI_get_bytes(vdlen.p, unlen.v * 2), LAMBDA unicode_name :
    Bind(UEFI_get_bytes(unicode_name.p, vdlen.v), LAMBDA vdata :
    Bind(Sub(vdata.p,
             Variable_parse(
                 lookup_variable_handler(variable_name.v, unicode_name.v),
                 UEFI_get_subparser(vdata.p, vdata.v))),
         LAMBDA variable_data :
        Left_check(variable_data.p,
           [cls |-> "UEFIVariableDataEvent", pcr |-> hdr.pcr,
            event_type |-> hdr.event_type, digests |-> hdr.digests,
            variable_name |-> variable_name.v,
            unicode_name |-> unicode_name.v,
            variable_data |-> variable_data.v])))))))

UEFI_EV_EFI_VariableAuthorityEvent_parse(sp, hdr) ==
    Bind(UEFI_get_guid(sp), LAMBDA variable_name :
    Bind(UEFI_get_int(variable_name.p, 8), LAMBDA unlen :
    Bind(UEFI_get_int(unlen.p, 8), LAMBDA vdlen :
    Bind(UEFI_get_bytes(vdlen.p, unlen.v * 2), LAMBDA unicode_name :
    Bind(UEFI_get_bytes(unicode_name.p, vdlen.v), LAMBDA vdata :
    Bind(Sub(vdata.p,
             UnknownSignatureData_parse(
                 UEFI_get_subparser(vdata.p, vdata.v))),
         LAMBDA variable_data :
        Left_check(variable_data.p,
           [cls |-> "UEFI_EV_EFI_VariableAuthorityEvent", pcr |-> hdr.pcr,
            event_type |-> hdr.event_type, digests |-> hdr.digests,
            variable_name |-> variable_name.v,
            unicode_name |-> unicode_name.v,
            variable_data |-> variable_data.v])))))))

UEFI_EF_EFI_BootServicesApplicationEvent_parse(sp, hdr) ==
    Bind(UEFI_get_int(sp, 8), LAMBDA image_location_in_memory :
    Bind(UEFI_get_int(image_location_in_memory.p, 8),
         LAMBDA image_length_in_memory :
    Bind(UEFI_get_int(image_length_in_memory.p, 8),
         LAMBDA image_link_time_address :
    Bind(UEFI_get_int(image_link_time_address.p, 8), LAMBDA dpl :
    Bind(UEFI_get_bytes(dpl.p, dpl.v), LAMBDA dp_data :
    Bind(Sub(dp_data.p,
             parse_device_path(UEFI_get_subparser(dp_data.p, dp_data.v))),
         LAMBDA device_path :
        Ok(device_path.p,
           [cls |-> "UEFI_EF_EFI_BootServicesApplicationEvent",
            pcr |-> hdr.pcr, event_type |-> hdr.event_type,
            digests |-> hdr.digests,
            image_location_in_memory |-> image_location_in_memory.v,
            image_length_in_memory |-> image_length_in_memory.v,
            image_link_time_address |-> image_link_time_address.v,
            device_path |-> device_path.v])))))))

\* the while num_tables loop of UEFI_EV_EFI_HandoffTablesEvent.parse
RECURSIVE HandoffTables_loop(_, _, _)
HandoffTables_loop(sp, num_tables, entries) ==
    IF num_tables # 0
    THEN Bind(UEFI_get_guid(sp), LAMBDA guid :
         Bind(UEFI_get_int(guid.p, 8), LAMBDA table :
             HandoffTables_loop(table.p, num_tables - 1,
                                Append(entries, <<guid.v, table.v>>))))
    ELSE Ok(sp, entries)

UEFI_EV_EFI_HandoffTablesEvent_parse(sp, hdr) ==
    Bind(UEFI_get_int(sp, 8), LAMBDA num_tables :
    Bind(HandoffTables_loop(num_tables.p, num_tables.v, <<>>),
         LAMBDA entries :
        Ok(entries.p,
           [cls |-> "UEFI_EV_EFI_HandoffTablesEvent", pcr |-> hdr.pcr,
            event_type |-> hdr.event_type, digests |-> hdr.digests,
            table_entries |-> entries.v])))

\* cls.parse(subparser, header) for the handler class named cls
Handler_parse(cls, sp, hdr) ==
    CASE cls = "UEFIUnknownEvent" -> UEFIUnknownEvent_parse(sp, hdr)
      [] cls = "UEFI_EV_S_CRTM_ContentsEvent" ->
             UEFI_EV_S_CRTM_ContentsEvent_parse(sp, hdr)
      [] cls = "UEFI_EV_S_CRTM_VersionEvent" ->
             RawEvent_parse(cls, "version_string", sp, hdr)
      [] cls = "UEFI_EV_SeparatorEvent" -> RawEvent_parse(cls, "data", sp, hdr)
      [] cls = "UEFI_EV_IPLEvent" -> RawEvent_parse(cls, "data", sp, hdr)
      [] cls = "UEFI_EV_PostCodeEvent" ->
             RawEvent_parse(cls, "post_code", sp, hdr)
      [] cls = "UEFI_EV_EventTagEvent" -> UEFI_EV_EventTagEvent_parse(sp, hdr)
      [] cls = "UEFI_EV_EFI_PlatformFirmwareBlobEvent" ->
             UEFI_EV_EFI_PlatformFirmwareBlobEvent_parse(sp, hdr)
      [] cls = "UEFIVariableDataEvent" -> UEFIVariableDataEvent_parse(sp, hdr)
      [] cls = "UEFI_EV_EFI_VariableAuthorityEvent" ->
             UEFI_EV_EFI_VariableAuthorityEvent_parse(sp, hdr)
      [] cls = "UEFI_EF_EFI_BootServicesApplicationEvent" ->
             UEFI_EF_EFI_BootServicesApplicationEvent_parse(sp, hdr)
      [] cls = "UEFI_EV_EFI_HandoffTablesEvent" ->
             UEFI_EV_EFI_HandoffTablesEvent_parse(sp, hdr)

\* UEFIEventType(event_type): a ValueError for a code that is no member
UEFIEventType_of(p, event_type) ==
    IF event_type \notin UEFIEventType
    THEN Raise(p, ValueError(<<event_type, "is not a valid UEFIEventType">>))
    ELSE Ok(p, event_type)

UEFI_parse_event(p, handlers) ==
    Bind(UEFI_get_uint32(p), LAMBDA pcr :
    Bind(UEFI_get_uint32(pcr.p), LAMBDA raw_type :
    Bind(UEFIEventType_of(raw_type.p, raw_type.v), LAMBDA event_type :
    Bind(UEFI_get_digests(event_type.p), LAMBDA digests :
    Bind(UEFI_get_len_bytes(digests.p), LAMBDA subdata :
        Sub(subdata.p,
            Handler_parse(
                lookup_event_handler(handlers, event_type.v, pcr.v),
                UEFI_get_subparser(subdata.p, subdata.v),
                UEFIEvent(pcr.v, event_type.v, digests.v))))))))

(***************************************************************************)
(* ima.py: IMATemplateField and IMATemplateDescriptor                      *)
(***************************************************************************)
\* A field identifier is the member's name in the wire spelling; a
\* descriptor arrives as bytes and is compared with the ASCII of its name.
IMATemplateDescriptor_ima == <<"d", "n">>
IMATemplateDescriptor_ima_ng == <<"d-ng", "n-ng">>
IMATemplateDescriptor_ima_ngv2 == <<"d-ngv2", "n-ng">>
IMATemplateDescriptor_ima_sig == <<"d-ng", "n-ng", "sig">>
IMATemplateDescriptor_ima_sigv2 == <<"d-ngv2", "n-ng", "sig">>
IMATemplateDescriptor_ima_buf == <<"d-ng", "n-ng", "buf">>
IMATemplateDescriptor_ima_modsig ==
    <<"d-ng", "n-ng", "sig", "d-modsig", "modsig">>
\* evm_sig without the xattrvalues member
IMATemplateDescriptor_evm_sig_no_values ==
    <<"d-ng", "n-ng", "evmsig", "xattrnames", "xattrlengths",
      "iuid", "igid", "imode">>

IMATemplateDescriptor_evm_sig ==
    <<"d-ng", "n-ng", "evmsig", "xattrnames", "xattrlengths", "xattrvalues",
      "iuid", "igid", "imode">>

\* b"ima"
bytes_ima == <<105, 109, 97>>
\* b"ima-ng"
bytes_ima_ng == <<105, 109, 97, 45, 110, 103>>
\* b"ima-ngv2"
bytes_ima_ngv2 == <<105, 109, 97, 45, 110, 103, 118, 50>>
\* b"ima-sig"
bytes_ima_sig == <<105, 109, 97, 45, 115, 105, 103>>
\* b"ima-sigv2"
bytes_ima_sigv2 == <<105, 109, 97, 45, 115, 105, 103, 118, 50>>
\* b"ima-buf"
bytes_ima_buf == <<105, 109, 97, 45, 98, 117, 102>>
\* b"ima-modsig"
bytes_ima_modsig == <<105, 109, 97, 45, 109, 111, 100, 115, 105, 103>>
\* b"evm-sig"
bytes_evm_sig == <<101, 118, 109, 45, 115, 105, 103>>

\* the members of IMATemplateDescriptor by name, in declared order
IMATemplateDescriptor ==
    <<bytes_ima, bytes_ima_ng, bytes_ima_ngv2, bytes_ima_sig, bytes_ima_sigv2,
      bytes_ima_buf, bytes_ima_modsig, bytes_evm_sig>>

\* IMATemplateDescriptor.expand: the outcome has no parser object
IMATemplateDescriptor_expand(descriptor) ==
    IF descriptor = bytes_ima THEN Ok(<<>>, IMATemplateDescriptor_ima)
    ELSE IF descriptor = bytes_ima_ng
    THEN Ok(<<>>, IMATemplateDescriptor_ima_ng)
    ELSE IF descriptor = bytes_ima_ngv2
    THEN Ok(<<>>, IMATemplateDescriptor_ima_ngv2)
    ELSE IF descriptor = bytes_ima_sig
    THEN Ok(<<>>, IMATemplateDescriptor_ima_sig)
    ELSE IF descriptor = bytes_ima_sigv2
    THEN Ok(<<>>, IMATemplateDescriptor_ima_sigv2)
    ELSE IF descriptor = bytes_ima_buf
    THEN Ok(<<>>, IMATemplateDescriptor_ima_buf)
    ELSE IF descriptor = bytes_ima_modsig
    THEN Ok(<<>>, IMATemplateDescriptor_ima_modsig)
    ELSE IF descriptor = bytes_evm_sig
    THEN Ok(<<>>, IMATemplateDescriptor_evm_sig)
    ELSE Raise(<<>>, KeyError(<<>>))

(***************************************************************************)
(* ima.py: IMAParser                                                       *)
(***************************************************************************)
IMAParser(data, byteorder) ==
    [cls |-> "IMAParser", data |-> data, offset |-> 0,
     byteorder |-> byteorder]

IMA_left(p) == Len(p.data) - p.offset

\* get_bytes that moves the offset to the end of the buffer before it
\* raises EOFError
IMA_get_bytes_drain(p, size) ==
    IF size > IMA_left(p)
    THEN Raise([p EXCEPT !.offset = Len(p.data)], EOFError)
    ELSE Ok([p EXCEPT !.offset = @ + size], Slice(p.data, p.offset, size))

IMA_get_bytes(p, size) ==
    IF size > IMA_left(p) THEN Raise(p, EOFError)
    ELSE Ok([p EXCEPT !.offset = @ + size], Slice(p.data, p.offset, size))

from_bytes(b, byteorder) ==
    IF byteorder = "little" THEN from_bytes_little(b) ELSE from_bytes_big(b)

IMA_get_uint32(p) ==
    Bind(IMA_get_bytes(p, 4), LAMBDA b :
        Ok(b.p, from_bytes(b.v, p.byteorder)))

IMA_get_len_bytes(p) ==
    Bind(IMA_get_uint32(p), LAMBDA cl : IMA_get_bytes(cl.p, cl.v))

IMA_get_subparser(p, data) == IMAParser(data, p.byteorder)

\* bytes.split(sep, maxsplit) for a one-byte sep; maxsplit = -1 is no limit
RECURSIVE split(_, _, _)
split(b, sep, maxsplit) ==
    IF maxsplit = 0 \/ ~In(sep, b) THEN <<b>>
    ELSE LET i == CHOOSE j \in 1..Len(b) :
                      b[j] = sep /\ \A k \in 1..(j - 1) : b[k] # sep
         IN  <<SubSeq(b, 1, i - 1)>>
                 \o split(SubSeq(b, i + 1, Len(b)), sep, maxsplit - 1)

colon == 58
bar == 124

\* an unpacking that takes the components missing from parts as empty
Unpack_padded(p, parts, n) ==
    Ok(p, [i \in 1..n |-> IF i <= Len(parts) THEN parts[i] ELSE <<>>])

\* a, b = parts, or a, b, c = parts: a ValueError unless Len(parts) = n
Unpack(p, parts, n) ==
    IF Len(parts) # n
    THEN Raise(p, ValueError(<<"not enough values to unpack", n, Len(parts)>>))
    ELSE Ok(p, parts)

\* the while loop of the xattrlengths branch of parse_field
RECURSIVE IMA_xattrlengths_loop(_, _)
IMA_xattrlengths_loop(sp, lens) ==
    IF IMA_left(sp) # 0
    THEN Bind(IMA_get_uint32(sp), LAMBDA xl :
             IMA_xattrlengths_loop(xl.p, Append(lens, xl.v)))
    ELSE Ok(sp, lens)

\* the branches of parse_field on the field value fv, p the parser after
\* the value was read
IMA_parse_field_value(p, field_type, fv) ==
    CASE field_type = "d" -> Ok(p, [field |-> field_type, digest |-> fv])
      [] field_type = "n" -> Ok(p, [field |-> field_type, name |-> fv])
      [] field_type = "d-ng" ->
            Bind(Unpack(p, split(fv, colon, 1), 2), LAMBDA parts :
                Ok(p, [field |-> field_type, algorithm |-> parts.v[1],
                       digest |-> parts.v[2]]))
      [] field_type = "d-ngv2" ->
            Bind(Unpack(p, split(fv, colon, 2), 3), LAMBDA parts :
                Ok(p, [field |-> field_type, type |-> parts.v[1],
                       algorithm |-> parts.v[2], digest |-> parts.v[3]]))
      [] field_type = "d-modsig" ->
            Ok(p, [field |-> field_type, digest |-> fv])
      [] field_type = "n-ng" -> Ok(p, [field |-> field_type, name |-> fv])
      [] field_type = "sig" ->
            Ok(p, [field |-> field_type, signature |-> fv])
      [] field_type = "modsig" ->
            Ok(p, [field |-> field_type, signature |-> fv])
      [] field_type = "buf" -> Ok(p, [field |-> field_type, buffer |-> fv])
      [] field_type = "evmsig" ->
            Ok(p, [field |-> field_type, signature |-> fv])
      [] field_type = "iuid" ->
            Ok(p, [field |-> field_type,
                   iuid |-> from_bytes(fv, p.byteorder)])
      [] field_type = "igid" ->
            Ok(p, [field |-> field_type,
                   igid |-> from_bytes(fv, p.byteorder)])
      [] field_type = "imode" ->
            Ok(p, [field |-> field_type,
                   imode |-> from_bytes(fv, p.byteorder)])
      [] field_type = "xattrnames" ->
            Ok(p, [field |-> field_type, names |-> split(fv, bar, -1)])
      [] field_type = "xattrlengths" ->
            Bind(Sub(p, IMA_xattrlengths_loop(IMA_get_subparser(p, fv),
                                              <<>>)), LAMBDA lens :
                Ok(p, [field |-> field_type, lengths |-> lens.v]))
      [] field_type = "xattrvalues" -> Raise(p, NotImplementedError)
      [] OTHER -> Raise(p, ValueError(<<>>))

IMA_parse_field(p, field_type) ==
    Bind(IMA_get_len_bytes(p), LAMBDA fv :
        IMA_parse_field_value(fv.p, field_type, fv.v))

\* the for loop of parse_fields
RECURSIVE IMA_parse_fields_loop(_, _, _)
IMA_parse_fields_loop(p, field_types, fields) ==
    IF field_types = <<>> THEN Ok(p, fields)
    ELSE Bind(IMA_parse_field(p, Head(field_types)), LAMBDA field :
             IMA_parse_fields_loop(field.p, Tail(field_types),
                                   Append(fields, field.v)))

\* parse_fields that takes the field types from the last to the first
IMA_parse_fields_reversed(p, field_types) ==
    IMA_parse_fields_loop(p, Reverse(field_types), <<>>)

IMA_parse_fields(p, field_types) ==
    IMA_parse_fields_loop(p, field_types, <<>>)

\* parse_event with parse_fields in a try block: after an exception of a
\* field the event is returned without fields
IMA_parse_event_catch(p) ==
    Bind(IMA_get_uint32(p), LAMBDA pcr :
    Bind(IMA_get_bytes(pcr.p, 20), LAMBDA dig :
    Bind(IMA_get_len_bytes(dig.p), LAMBDA descriptor :
    Bind(Sub(descriptor.p, IMATemplateDescriptor_expand(descriptor.v)),
         LAMBDA field_types :
    Bind(IMA_get_len_bytes(field_types.p), LAMBDA subdata :
        Ok(subdata.p, [cls |-> "IMATemplateEvent", pcr |-> pcr.v,
                       fields |-> <<>>,
                       digests |-> DictSet(EmptyDict, sha1, dig.v)]))))))

IMA_parse_event(p) ==
    Bind(IMA_get_uint32(p), LAMBDA pcr :
    Bind(IMA_get_bytes(pcr.p, 20), LAMBDA dig :
    Bind(IMA_get_len_bytes(dig.p), LAMBDA descriptor :
    Bind(Sub(descriptor.p, IMATemplateDescriptor_expand(descriptor.v)),
         LAMBDA field_types :
    Bind(IMA_get_len_bytes(field_types.p), LAMBDA subdata :
    Bind(Sub(subdata.p,
             IMA_parse_fields(IMA_get_subparser(subdata.p, subdata.v),
                              field_types.v)), LAMBDA fields :
        Ok(fields.p, [cls |-> "IMATemplateEvent", pcr |-> pcr.v,
                      fields |-> fields.v,
                      digests |-> DictSet(EmptyDict, sha1, dig.v)])))))))

(***************************************************************************)
(* The inputs: buffers built from a description of the record they hold.   *)
(* A description is a well-formed record of one grammar with at most one   *)
(* deviation from it.                                                      *)
(***************************************************************************)
MaxExtra == 2   \* extra bytes appended to a range
MaxRaw == 2     \* length of the buffers on which reads are called directly
MaxRead == 3    \* size of a direct read
MaxCalls == 3   \* calls made on one parser object

RECURSIVE Zeros(_)
Zeros(n) == IF n <= 0 THEN <<>> ELSE <<0>> \o Zeros(n - 1)

RECURSIVE Concat(_)
Concat(seqs) == IF seqs = <<>> THEN <<>> ELSE Head(seqs) \o Concat(Tail(seqs))

U32BE(n) == <<n \div 16777216, (n \div 65536) % 256, (n \div 256) % 256,
              n % 256>>
U16LE(n) == <<n % 256, (n \div 256) % 256>>
U32LE(n) == <<n % 256, (n \div 256) % 256, (n \div 65536) % 256,
              n \div 16777216>>

\* b without its last cut bytes
Cut(b, cut) == SubSeq(b, 1, IF cut >= Len(b) THEN 0 ELSE Len(b) - cut)

RawBuffers == UNION {[1..n -> {0, 1}] : n \in 0..MaxRaw}

\* a CEL field: type, declared length, value
TLVL(t, l, v) == <<t>> \o U32BE(l) \o v
TLV(t, v) == TLVL(t, Len(v), v)

CelGrammars == {"firmware_end", "cel_version", "cel_timestamp", "state_trans",
                "pcclient_std", "ima_template"}
CelMgmt == {"firmware_end", "cel_version", "cel_timestamp", "state_trans"}

CelBase(g) ==
    [fmt |-> "cel", g |-> g,
     rt |-> CELBaseType_recnum, rw |-> 1,      \* recnum: type, width
     ht |-> CELBaseType_pcr, hw |-> 1,         \* handle: type, width
     dt |-> CELBaseType_digests,               \* digests: type
     da |-> sha1,                              \* digest entry: algorithm
     dd |-> 0,              \* digests: declared length minus the entries'
     ct |-> IF g \in CelMgmt THEN CELContentType_cel
            ELSE IF g = "pcclient_std" THEN CELContentType_pcclient_std
            ELSE CELContentType_ima_template,
     mt |-> CASE g = "firmware_end" -> CELMgmtType_firmware_end
              [] g = "cel_version" -> CELMgmtType_cel_version
              [] g = "cel_timestamp" -> CELMgmtType_cel_timestamp
              [] OTHER -> CELMgmtType_state_trans,
     f1t |-> 0, f2t |-> 1,  \* the types of the grammar's two fields
     w |-> 1,               \* the width of the grammar's integer
     sv |-> 2,              \* the state transition (kexec)
     xin |-> 0,             \* extra bytes in the range of the two fields
     xc |-> 0,              \* extra bytes in the content range
     xo |-> 0,              \* extra bytes after the record
     rep |-> 0,             \* copies of the content field after the record
     cut |-> 0]             \* bytes cut from the end of the buffer

CelInt(w, v) == Zeros(w - 1) \o (IF w > 0 THEN <<v>> ELSE <<>>)

CelContent(d) ==
    CASE d.g = "firmware_end" -> TLV(d.mt, <<>>) \o Zeros(d.xc)
      [] d.g = "cel_version" ->
            TLV(d.mt, TLV(d.f1t, CelInt(d.w, 2)) \o TLV(d.f2t, <<0>>)
                          \o Zeros(d.xin)) \o Zeros(d.xc)
      [] d.g = "cel_timestamp" -> TLV(d.mt, CelInt(d.w, 9)) \o Zeros(d.xc)
      [] d.g = "state_trans" -> TLV(d.mt, CelInt(d.w, d.sv)) \o Zeros(d.xc)
      [] d.g = "pcclient_std" ->
            TLV(d.f1t, CelInt(d.w, 6)) \o TLV(d.f2t, <<102, 97>>)
                \o Zeros(d.xin)
      [] d.g = "ima_template" ->
            TLV(d.f1t, <<101>>) \o TLV(d.f2t, <<102, 97>>) \o Zeros(d.xin)

CelEntries(d) == TLV(d.da, <<7, 7>>)

CelRecord(d) ==
    TLV(d.rt, CelInt(d.rw, 0)) \o TLV(d.ht, CelInt(d.hw, 1))
        \o TLVL(d.dt, Len(CelEntries(d)) + d.dd, CelEntries(d))
        \o TLV(d.ct, CelContent(d)) \o Zeros(d.xo)
        \o (IF d.rep > 0 THEN TLV(d.ct, CelContent(d)) ELSE <<>>)

CelBuffer(d) ==
    IF d.g = "raw" THEN d.data
    ELSE IF d.g = "two" THEN CelRecord(d.first) \o CelRecord(d.second)
    ELSE IF d.g = "seq"
    THEN Concat([i \in 1..Len(d.records) |-> CelRecord(d.records[i])])
    ELSE Cut(CelRecord(d), d.cut)

\* the deviations of one field from the well-formed record of grammar g
CelDeviations(g) ==
    LET b == CelBase(g) IN
    {[b EXCEPT !.rt = 1], [b EXCEPT !.rw = 9],
     [b EXCEPT !.ht = CELBaseType_nv_index], [b EXCEPT !.ht = 0],
     [b EXCEPT !.ht = 3], [b EXCEPT !.hw = 5],
     [b EXCEPT !.dt = 0], [b EXCEPT !.da = 5], [b EXCEPT !.da = sha256],
     [b EXCEPT !.dd = 1], [b EXCEPT !.dd = -1],
     [b EXCEPT !.ct = 6], [b EXCEPT !.ct = 0]}
    \cup {[b EXCEPT !.xo = m] : m \in 1..MaxExtra}
    \cup (IF g \in CelMgmt
          THEN {[b EXCEPT !.mt = 3], [b EXCEPT !.mt = 255]}
                   \cup {[b EXCEPT !.xc = m] : m \in 1..MaxExtra}
          ELSE {})
    \cup (IF g \in {"cel_version", "pcclient_std", "ima_template"}
          THEN {[b EXCEPT !.f1t = 1, !.f2t = 0], [b EXCEPT !.f1t = 255],
                [b EXCEPT !.f2t = 255], [b EXCEPT !.f2t = 0],
                [b EXCEPT !.f1t = 1]}
                   \cup {[b EXCEPT !.xin = m] : m \in 1..MaxExtra}
          ELSE {})
    \cup (CASE g = "cel_version" -> {[b EXCEPT !.w = 2], [b EXCEPT !.w = 3]}
            [] g = "cel_timestamp" -> {[b EXCEPT !.w = 8], [b EXCEPT !.w = 9]}
            [] g = "state_trans" ->
                  {[b EXCEPT !.w = 2], [b EXCEPT !.sv = 0],
                   [b EXCEPT !.sv = 1], [b EXCEPT !.sv = 3]}
            [] g = "pcclient_std" -> {[b EXCEPT !.w = 4], [b EXCEPT !.w = 5]}
            [] OTHER -> {})

CelInputs ==
    {CelBase(g) : g \in CelGrammars}
    \cup UNION {CelDeviations(g) : g \in CelGrammars}
    \cup UNION {{[CelBase(g) EXCEPT !.cut = k] :
                    k \in 1..Len(CelRecord(CelBase(g)))} :
                g \in {"cel_version", "ima_template"}}
    \cup {[CelBase(g) EXCEPT !.dd = Len(TLV(@, CelContent(CelBase(g)))) + j,
                              !.rep = r, !.da = a] :
             g \in {"firmware_end", "pcclient_std", "cel_version"},
             j \in {-1, 0, 1}, r \in {0, 1}, a \in {sha1, sha256}}
    \cup {[CelBase(g) EXCEPT !.rep = 1] : g \in CelGrammars}
    \cup {[fmt |-> "cel", g |-> "two", first |-> CelBase(g1),
           second |-> CelBase(g2)] :
             g1 \in {"firmware_end", "pcclient_std"},
             g2 \in {"cel_version", "ima_template"}}
    \cup {[fmt |-> "cel", g |-> "seq", records |-> r] :
             r \in UNION {[1..k -> {CelBase(g) :
                                       g \in {"firmware_end", "cel_version",
                                              "pcclient_std"}}] :
                          k \in 1..MaxCalls}}
    \cup {[fmt |-> "cel", g |-> "raw", data |-> b] : b \in RawBuffers}

\* ---- UEFI: a session's buffer is a header record and events ----
LenLE(b) == U32LE(Len(b)) \o b

\* "Spec ID Event03\0"
SpecIDSignature ==
    <<83, 112, 101, 99, 32, 73, 68, 32, 69, 118, 101, 110, 116, 48, 51, 0>>

\* a header: event type, uintn code, the (algorithm id, size) pairs, and
\* the declared pair count minus the pairs present
UefiHdrBase ==
    [et |-> ev_no_action, uintn |-> 2, algs |-> << <<sha1, 2>> >>, dn |-> 0]

UefiHeader(h) ==
    U32LE(0) \o U32LE(h.et) \o Zeros(20)
        \o LenLE(SpecIDSignature \o U32LE(0) \o <<0, 2, 0, h.uintn>>
                     \o U32LE(Len(h.algs) + h.dn)
                     \o Concat([i \in 1..Len(h.algs) |->
                                   U16LE(h.algs[i][1]) \o U16LE(h.algs[i][2])])
                     \o <<0>>)

\* the size the header of the session declares for alg (the last pair
\* wins), or 2 when it declares none
RECURSIVE DeclaredSize(_, _)
DeclaredSize(algs, alg) ==
    IF algs = <<>> THEN 2
    ELSE IF algs[Len(algs)][1] = alg THEN algs[Len(algs)][2]
    ELSE DeclaredSize(SubSeq(algs, 1, Len(algs) - 1), alg)

\* an event: pcr, event type, the algorithm ids of its digest entries, the
\* extra bytes at the end of its payload and the bytes cut from it
UefiEvBase ==
    [pcr |-> 0, et |-> ev_separator, digs |-> <<sha1>>, xp |-> 0, pc |-> 0]

UefiPayload(e) ==
    Cut((IF e.et = ev_s_crtm_contents /\ e.pcr = 0
         THEN <<1, 65>> \o <<1>> \o Zeros(7) \o <<2>> \o Zeros(7)
         ELSE IF e.et = ev_event_tag THEN U32LE(9) \o LenLE(<<7>>)
         ELSE <<1, 2>>) \o Zeros(e.xp), e.pc)

UefiEvent(e, algs) ==
    U32LE(e.pcr) \o U32LE(e.et) \o U32LE(Len(e.digs))
        \o Concat([i \in 1..Len(e.digs) |->
                      U16LE(e.digs[i])
                          \o [j \in 1..DeclaredSize(algs, e.digs[i]) |-> 85]])
        \o LenLE(UefiPayload(e))

UefiBuffer(d) ==
    IF d.g \in {"raw", "payload"} THEN d.data
    ELSE Cut((IF d.hashdr THEN UefiHeader(d.hdr) ELSE <<>>)
                 \o Concat([i \in 1..Len(d.events) |->
                               UefiEvent(d.events[i],
                                   IF d.hashdr THEN d.hdr.algs ELSE <<>>)]),
             d.cut)

UefiSession(hashdr, hdr, events, cut) ==
    [fmt |-> "uefi", g |-> "session", hashdr |-> hashdr, hdr |-> hdr,
     events |-> events, cut |-> cut]

UefiGoodHeaders ==
    {UefiHdrBase, [UefiHdrBase EXCEPT !.uintn = 1],
     [UefiHdrBase EXCEPT !.algs = <<>>],
     [UefiHdrBase EXCEPT !.algs = << <<sha1, 20>> >>],
     [UefiHdrBase EXCEPT !.algs = << <<sha1, 2>>, <<sha256, 3>> >>]}

UefiBadHeaders ==
    {[UefiHdrBase EXCEPT !.uintn = 3], [UefiHdrBase EXCEPT !.et = 2],
     [UefiHdrBase EXCEPT !.algs = << <<5, 2>> >>],
     [UefiHdrBase EXCEPT !.dn = 1]}

UefiEvents ==
    {[UefiEvBase EXCEPT !.et = t, !.pcr = r] :
        t \in {ev_post_code, 2, ev_no_action, ev_separator, ev_action,
               ev_event_tag, ev_s_crtm_contents, ev_s_crtm_version, ev_ipl,
               19},
        r \in {0, 1}}
    \cup {[UefiEvBase EXCEPT !.digs = ds] :
             ds \in {<<>>, <<sha256>>, <<sha1, sha256>>, <<5>>, <<sha512>>,
                     <<sha1, sha1>>}}
    \cup {[UefiEvBase EXCEPT !.et = t, !.xp = m] :
             t \in {ev_s_crtm_contents, ev_event_tag}, m \in 1..MaxExtra}
    \cup {[UefiEvBase EXCEPT !.et = t, !.pc = k] :
             t \in {ev_s_crtm_contents, ev_event_tag}, k \in {1, 9}}

UefiInputs ==
    {UefiSession(TRUE, h, <<e>>, 0) : h \in UefiGoodHeaders, e \in UefiEvents}
    \cup {UefiSession(TRUE, h, <<UefiEvBase>>, 0) : h \in UefiBadHeaders}
    \cup {UefiSession(FALSE, UefiHdrBase, <<e>>, 0) : e \in UefiEvents}
    \cup {UefiSession(TRUE, UefiHdrBase, <<UefiEvBase, e>>, 0) :
             e \in {[UefiEvBase EXCEPT !.digs = ds] :
                       ds \in {<<>>, <<sha1>>, <<sha256>>}}}
    \cup {UefiSession(TRUE, UefiHdrBase, <<UefiEvBase>>, k) :
             k \in 1..Len(UefiHeader(UefiHdrBase)
                              \o UefiEvent(UefiEvBase, UefiHdrBase.algs))}
    \cup {[fmt |-> "uefi", g |-> "raw", data |-> b] : b \in RawBuffers}

\* ---- UEFI: the payloads of the nested decoders ----
U64LE(n) == U32LE(n) \o Zeros(4)

\* a payload description: the decoder it is built for and its bytes
Payload(dec, of, data) ==
    [fmt |-> "uefi", g |-> "payload", dec |-> dec, of |-> of, data |-> data]

\* a GUID that no registry holds
UUID_other == [j \in 1..16 |-> j]

\* a signature list: type GUID, the three sizes, hs header bytes, and n
\* entries of an owner GUID and one byte
SigListBase ==
    [type |-> UUID_x509, ls |-> 28 + 17, hs |-> 0, ss |-> 17, n |-> 1]

SigListBytes(d) ==
    UUID_bytes_le(d.type) \o U32LE(d.ls) \o U32LE(d.hs) \o U32LE(d.ss)
        \o Zeros(d.hs)
        \o Concat([i \in 1..d.n |-> [j \in 1..16 |-> j] \o <<i>>])

SigLists ==
    {[SigListBase EXCEPT !.type = t] : t \in {UUID_x509, UUID_other}}
    \cup {[SigListBase EXCEPT !.type = t, !.ss = 0, !.n = k] :
             t \in {UUID_x509, UUID_other}, k \in {0, 1}}
    \cup {[SigListBase EXCEPT !.ls = l] : l \in {0, 27, 28, 29, 44, 46, 62}}
    \cup {[SigListBase EXCEPT !.ls = l, !.n = 2] : l \in {45, 50, 62}}
    \cup {[SigListBase EXCEPT !.ss = k] : k \in {5, 16, 18}}
    \cup {[SigListBase EXCEPT !.hs = 2], [SigListBase EXCEPT !.hs = 2, !.ls = 47],
          [SigListBase EXCEPT !.hs = 99],
          [SigListBase EXCEPT !.ss = 16, !.ls = 44],
          [SigListBase EXCEPT !.ss = 18, !.ls = 46, !.n = 2],
          [SigListBase EXCEPT !.ss = 34, !.ls = 62, !.n = 2, !.hs = 2]}

\* a device path segment: type, subtype, declared total length, body
Seg(t, st, dl, body) == <<t, st>> \o U16LE(dl) \o body

SegAcpi == Seg(DeviceType_acpi, AcpiDeviceSubType_acpi, 12,
               U32LE(1) \o U32LE(2))
SegPci == Seg(DeviceType_hardware, HardwareDeviceSubType_pci, 6, <<1, 2>>)
SegFile == Seg(DeviceType_media, MediaDeviceSubType_filepath, 6, <<97, 0>>)
SegEnd == Seg(DeviceType_end, BaseDeviceSubType_entire_end, 4, <<>>)

\* segments whose (type, subtype) pair has no registered handler: the
\* type, the subtype and the bytes that follow the four of the header
UnregisteredSegments ==
    {<<DeviceType_acpi, 9, <<1, 2>> >>,
     <<DeviceType_bios_boot_speciciation, 1, <<1>> >>,
     <<DeviceType_end, 1, <<>> >>,
     <<9, 1, <<>> >>, <<0, 1, <<>> >>, <<6, 255, <<3>> >>}

DevPaths ==
    {<<>>, SegAcpi, SegPci, SegFile, SegEnd,
     SegPci \o SegEnd, SegAcpi \o SegFile \o SegEnd, SegEnd \o SegEnd,
     Seg(DeviceType_acpi, 9, 6, <<1, 2>>),
     Seg(DeviceType_bios_boot_speciciation, 1, 5, <<1>>),
     Seg(9, 1, 4, <<>>), Seg(0, 1, 4, <<>>),
     Seg(DeviceType_acpi, AcpiDeviceSubType_acpi, 6, <<1, 2>>),
     Seg(DeviceType_acpi, AcpiDeviceSubType_acpi, 14,
         U32LE(1) \o U32LE(2) \o <<7, 7>>),
     Seg(DeviceType_hardware, HardwareDeviceSubType_pci, 7, <<1, 2, 3>>),
     Seg(DeviceType_end, BaseDeviceSubType_entire_end, 5, <<7>>),
     Seg(DeviceType_acpi, AcpiDeviceSubType_acpi, 20, U32LE(1) \o U32LE(2)),
     Seg(DeviceType_media, MediaDeviceSubType_harddrive, 46,
         U32LE(1) \o U64LE(2) \o U64LE(3) \o U32BE(5) \o Zeros(12)
             \o <<1, 1>>),
     Seg(DeviceType_media, MediaDeviceSubType_harddrive, 46,
         U32LE(1) \o U64LE(2) \o U64LE(3) \o Zeros(16) \o <<2, 3>>),
     Seg(DeviceType_messaging, MsgDeviceSubType_nvme_namespace, 16,
         U32LE(1) \o U64LE(2)),
     SegPci \o <<DeviceType_end>>, SegPci \o <<DeviceType_end, 255, 4>>}
    \cup {Seg(x[1], x[2], 4 + Len(x[3]), x[3]) \o tail :
             x \in UnregisteredSegments,
             tail \in {<<>>, SegEnd, Seg(DeviceType_media, 9, 5, <<8>>)}}
    \cup {Seg(DeviceType_end, BaseDeviceSubType_entire_end, dl, <<>>) :
             dl \in 0..3}
    \cup {SegPci \o Seg(DeviceType_media, MediaDeviceSubType_filepath, dl,
                        <<97>>) : dl \in 0..3}

Utf16s ==
    {<<>>, <<0>>, <<0, 0>>, <<97, 0, 0, 0>>, <<97, 0, 0, 0, 98, 0>>,
     <<97, 0>>, <<97, 0, 98>>, <<0, 97, 0, 0>>, <<0, 97, 0, 0, 0>>,
     <<97, 0, 98, 0, 99, 0>>, <<97, 0, 98, 0, 0, 0>>}

\* a boot variable: the description, the declared and the present device
\* path, the optional data
BootVar(description, fpl, path, optional_data) ==
    U32LE(1) \o U16LE(fpl) \o description \o path \o optional_data

BootVars ==
    {BootVar(<<97, 0, 0, 0>>, Len(path), path, opt) :
        path \in {<<>>, SegPci \o SegEnd, SegEnd,
                  Seg(DeviceType_end, BaseDeviceSubType_entire_end, 0, <<>>),
                  Seg(9, 1, 4, <<>>)},
        opt \in {<<>>, <<9>>}}
    \cup {BootVar(<<97, 0>>, 4, SegEnd, <<>>),
          BootVar(<<97, 0, 0, 0>>, 9, SegEnd, <<>>),
          BootVar(<<97, 0, 0, 0>>, 2, SegEnd, <<>>),
          BootVar(<<>>, 4, SegEnd, <<>>)}

\* the payload of a variable event: the variable's GUID and ASCII name,
\* the declared length of the name in characters and of the data in bytes,
\* the data, and xp extra bytes
VarData(guid, name, unlen, vdlen, vdata, xp) ==
    [guid |-> guid, name |-> name, unlen |-> unlen, vdlen |-> vdlen,
     vdata |-> vdata, xp |-> xp]

VarDataBytes(d) ==
    UUID_bytes_le(d.guid) \o U64LE(d.unlen) \o U64LE(d.vdlen)
        \o utf_16_le(d.name) \o d.vdata \o Zeros(d.xp)

VarDatas ==
    {VarData(UUID_global, ascii_SecureBoot, 10, Len(v), v, 0) :
        v \in {<<1>>, <<0>>, <<>>, <<1, 0>>, <<1, 2, 3>>}}
    \cup {VarData(UUID_global, ascii_BootOrder, 9, Len(v), v, 0) :
             v \in {<<>>, <<1, 0>>, <<1, 0, 2, 0>>, <<1, 0, 2>>}}
    \cup {VarData(UUID_global, ascii_PK, 2, Len(SigListBytes(d)),
                  SigListBytes(d), 0) :
             d \in {SigListBase, [SigListBase EXCEPT !.ss = 0],
                    [SigListBase EXCEPT !.ls = 62],
                    [SigListBase EXCEPT !.n = 2, !.ls = 62]}}
    \cup {VarData(UUID_image_security, ascii_db, 2, Len(SigListBytes(d)),
                  SigListBytes(d), 0) :
             d \in {SigListBase, [SigListBase EXCEPT !.type = UUID_other]}}
    \cup {VarData(UUID_global, ascii_Boot \o <<48, 48, 48, 65>>, 8, Len(v),
                  v, 0) :
             v \in {BootVar(<<97, 0, 0, 0>>, 4, SegEnd, <<9>>),
                    BootVar(<<97, 0, 0, 0>>, 4,
                        Seg(DeviceType_end, BaseDeviceSubType_entire_end, 0,
                            <<>>), <<>>),
                    BootVar(<<97, 0>>, 4, SegEnd, <<>>)}}
    \cup {VarData(UUID_image_security, ascii_PK, 2, 2, <<1, 2>>, 0),
          VarData(UUID_global, ascii_Boot \o <<70, 70, 70, 70>>, 8, 2,
                  <<1, 2>>, 0),
          VarData(UUID_global, ascii_SecureBoot, 10, 1, <<1>>, 1),
          VarData(UUID_global, ascii_SecureBoot, 10, 1, <<1>>, 2),
          VarData(UUID_global, ascii_SecureBoot, 10, 3, <<1>>, 0),
          VarData(UUID_global, ascii_SecureBoot, 11, 1, <<1>>, 0),
          VarData(UUID_global, ascii_SecureBoot, 9, 1, <<1>>, 0)}

\* the payload of a variable authority event: the data is a signature
VarAuths ==
    {VarData(UUID_image_security, ascii_db, 2, Len(v), v, xp) :
        v \in {[j \in 1..16 |-> j], [j \in 1..17 |-> j], <<1, 2>>, <<>>},
        xp \in {0, 1}}

Blobs == {U64LE(1) \o U64LE(2) \o Zeros(m) : m \in 0..MaxExtra}
             \cup {U64LE(1) \o <<2, 0, 0>>}

\* the payload of a boot services application event
Apps ==
    {U64LE(1) \o U64LE(2) \o U64LE(3) \o U64LE(dpl) \o path :
        dpl \in {0, 4, 10, 12}, path \in {SegPci \o SegEnd, SegEnd, <<>>}}

\* the payload of a handoff tables event: the count and the entries
Handoffs ==
    {U64LE(k) \o Concat([i \in 1..n |-> [j \in 1..16 |-> j] \o U64LE(i)]) :
        k \in 0..3, n \in 0..2}

NoDescription == [described |-> FALSE]

PayloadInputs ==
    {Payload("SignatureList", d, SigListBytes(d)) : d \in SigLists}
    \cup {Payload("SignaturesVariable", d, SigListBytes(d)) : d \in SigLists}
    \cup {Payload("SignaturesVariable", [first |-> d, second |-> e],
                  SigListBytes(d) \o SigListBytes(e)) :
             d \in {SigListBase, [SigListBase EXCEPT !.type = UUID_other],
                    [SigListBase EXCEPT !.type = UUID_other, !.ls = 28]},
             e \in {[SigListBase EXCEPT !.type = UUID_other],
                    [SigListBase EXCEPT !.type = UUID_other, !.ss = 0]}}
    \cup {Payload("parse_device_path", NoDescription, b) : b \in DevPaths}
    \cup {Payload("get_utf16", NoDescription, b) : b \in Utf16s}
    \cup {Payload("UEFIBootVariable", NoDescription, b) : b \in BootVars}
    \cup {Payload("UEFIBootOrderVariable", NoDescription, b) :
             b \in {<<>>, <<1>>, <<1, 0>>, <<1, 0, 2>>, <<1, 0, 2, 0>>}}
    \cup {Payload("SecureBootVariable", NoDescription, b) :
             b \in {<<>>, <<0>>, <<1>>, <<1, 0>>}}
    \cup {Payload("UEFIUnknownVariable", NoDescription, b) : b \in {<<>>, <<1, 2>>}}
    \cup {Payload("UEFIVariableDataEvent", d, VarDataBytes(d)) :
             d \in VarDatas}
    \cup {Payload("UEFI_EV_EFI_VariableAuthorityEvent", d, VarDataBytes(d)) :
             d \in VarAuths}
    \cup {Payload("UEFI_EV_EFI_PlatformFirmwareBlobEvent", NoDescription, b) :
             b \in Blobs}
    \cup {Payload("UEFI_EF_EFI_BootServicesApplicationEvent", NoDescription, b) :
             b \in Apps}
    \cup {Payload("UEFI_EV_EFI_HandoffTablesEvent", NoDescription, b) : b \in Handoffs}

\* ---- IMA: one record ----
bytes_iiiiii == <<105, 105, 105, 105, 105, 105>>

ImaNames == {bytes_ima, bytes_ima_ng, bytes_ima_ngv2, bytes_ima_sig,
             bytes_ima_sigv2, bytes_ima_buf, bytes_ima_modsig, bytes_evm_sig}
ImaBadNames == {bytes_iiiiii, <<>>, <<73, 77, 65>>, <<105, 109>>,
                bytes_ima_ng \o <<0>>}

\* a well-formed value of a field
ImaValue(field_type) ==
    CASE field_type = "d-ng" -> <<97, colon, 1, 2>>
      [] field_type = "d-ngv2" -> <<118, colon, 97, colon, 1, 2>>
      [] field_type = "n-ng" -> <<47, 97, 0>>
      [] field_type = "xattrnames" -> <<97, bar, 98>>
      [] field_type = "xattrlengths" -> U32LE(1) \o U32LE(2)
      [] field_type \in {"iuid", "igid", "imode"} -> <<104, 3>>
      [] OTHER -> <<1, 2>>

ImaBase(name) ==
    LET fts == IF name \in ImaNames
               THEN IMATemplateDescriptor_expand(name).v
               ELSE IMATemplateDescriptor_ima_ng
    IN  [fmt |-> "ima", g |-> "event", pcr |-> 10, name |-> name,
         vals |-> [i \in 1..Len(fts) |-> ImaValue(fts[i])],
         xin |-> 0,   \* extra bytes in the payload
         xo |-> 0,    \* extra bytes after the record
         cut |-> 0]

ImaRecord(d) ==
    U32LE(d.pcr) \o [i \in 1..20 |-> i] \o LenLE(d.name)
        \o LenLE(Concat([i \in 1..Len(d.vals) |-> LenLE(d.vals[i])])
                     \o Zeros(d.xin))
        \o Zeros(d.xo)

ImaBuffer(d) == IF d.g = "raw" THEN d.data ELSE Cut(ImaRecord(d), d.cut)

ImaInputs ==
    {ImaBase(n) : n \in ImaNames \cup ImaBadNames}
    \cup {[ImaBase(n) EXCEPT !.xin = m] :
             n \in ImaNames \ {bytes_evm_sig}, m \in 1..MaxExtra}
    \cup {[ImaBase(n) EXCEPT !.xo = m] :
             n \in ImaNames \ {bytes_evm_sig}, m \in 1..MaxExtra}
    \cup {[ImaBase(n) EXCEPT !.vals[1] = v] :
             n \in {bytes_ima_ng, bytes_ima_ngv2},
             v \in {<<>>, <<97, 1, 2>>, <<97, colon, 1, colon, 2>>,
                    <<118, colon, 97, colon, 1, colon, 2>>, <<colon>>}}
    \cup {[ImaBase(bytes_ima_ng) EXCEPT !.cut = k] :
             k \in 1..Len(ImaRecord(ImaBase(bytes_ima_ng)))}
    \cup {[ImaBase(bytes_evm_sig) EXCEPT !.vals = SubSeq(@, 1, k)] :
             k \in 0..8}
    \cup {[ImaBase(bytes_evm_sig) EXCEPT !.vals[i] = v] :
             i \in {1, 5, 6}, v \in {<<>>, <<9, 9, 9>>, <<97, colon>>}}
    \cup {[ImaBase(bytes_evm_sig) EXCEPT !.xin = m] : m \in 1..MaxExtra}
    \cup {[fmt |-> "ima", g |-> "raw", data |-> b] : b \in RawBuffers}

Inputs == CelInputs \cup UefiInputs \cup PayloadInputs \cup ImaInputs

Buffer(d) ==
    CASE d.fmt = "cel" -> CelBuffer(d)
      [] d.fmt = "uefi" -> UefiBuffer(d)
      [] d.fmt = "ima" -> ImaBuffer(d)

(***************************************************************************)
(* The state machine: a caller constructs a parser over a buffer and calls *)
(* its methods.                                                            *)
(***************************************************************************)
Outcome(r) == IF r.ok THEN [ok |-> TRUE, v |-> r.v]
              ELSE [ok |-> FALSE, err |-> r.err]

NoCall == [op |-> "new", args |-> <<>>, n |-> 0]
NoHeader == [called |-> FALSE]
NoLookup == [called |-> FALSE]

Init ==
    /\ input \in Inputs
    /\ parser = CASE input.fmt = "cel" -> TLVParser(Buffer(input))
                  [] input.fmt = "uefi" -> UEFIParser(Buffer(input))
                  [] input.fmt = "ima" -> IMAParser(Buffer(input), "little")
    /\ call = NoCall
    /\ result = [ok |-> TRUE, v |-> <<>>]
    /\ header = NoHeader
    /\ _event_handlers = register_all(EmptyDict, events_registrations)
    /\ registered = events_registrations
    /\ looked_up = NoLookup

\* the call op(args) on the parser, with outcome r
Called(op, args, r) ==
    /\ call.n < MaxCalls
    /\ parser' = r.p
    /\ result' = Outcome(r)
    /\ call' = [op |-> op, args |-> args, before |-> parser, n |-> call.n + 1]
    /\ UNCHANGED <<input, _event_handlers, registered, looked_up>>

Direct == Len(parser.data) <= MaxRaw

TLVGetBytes(size) ==
    /\ parser.cls = "TLVParser" /\ Direct
    /\ Called("get_bytes", <<size>>, TLV_get_bytes(parser, size))
    /\ UNCHANGED header

TLVGetInt(size, max_size) ==
    /\ parser.cls = "TLVParser" /\ Direct
    /\ Called("get_int", <<size, max_size>>,
              TLV_get_int(parser, size, max_size))
    /\ UNCHANGED header

TLVParseEvent ==
    /\ parser.cls = "TLVParser"
    /\ Called("parse_event", <<>>, TLV_parse_event(parser))
    /\ UNCHANGED header

UEFIGetBytes(size) ==
    /\ parser.cls = "UEFIParser" /\ Direct
    /\ Called("get_bytes", <<size>>, UEFI_get_bytes(parser, size))
    /\ UNCHANGED header

UEFIParseHeaderEvent ==
    /\ parser.cls = "UEFIParser" /\ input.g # "payload"
    /\ Called("parse_header_event", <<>>, UEFI_parse_header_event(parser))
    /\ header' = [called |-> TRUE]
                     @@ Outcome(UEFI_parse_header_event(parser))

UEFIParseEvent ==
    /\ parser.cls = "UEFIParser" /\ input.g # "payload"
    /\ Called("parse_event", <<>>,
              UEFI_parse_event(parser, _event_handlers))
    /\ UNCHANGED header

\* A nested decoder of uefi is called once, on a parser object over a
\* payload built for it.
Nested(dec) == input.g = "payload" /\ input.dec = dec /\ call.n = 0

\* the header a caller passes to an event handler
PayloadHeader == UEFIEvent(0, ev_no_action, EmptyDict)

UEFIGetUtf16 ==
    /\ Nested("get_utf16")
    /\ Called("get_utf16", <<>>, UEFI_get_utf16(parser))
    /\ UNCHANGED header

UEFIParseDevicePath ==
    /\ Nested("parse_device_path")
    /\ Called("parse_device_path", <<>>, parse_device_path(parser))
    /\ UNCHANGED header

UEFISignatureListParse ==
    /\ Nested("SignatureList")
    /\ Called("SignatureList.parse", <<>>, SignatureList_parse(parser))
    /\ UNCHANGED header

UEFIVariableParse(cls) ==
    /\ Nested(cls)
    /\ Called("UEFIVariable.parse", <<cls>>, Variable_parse(cls, parser))
    /\ UNCHANGED header

UEFIHandlerParse(cls) ==
    /\ Nested(cls)
    /\ Called("UEFIEvent.parse", <<cls>>,
              Handler_parse(cls, parser, PayloadHeader))
    /\ UNCHANGED header

IMAGetBytes(size) ==
    /\ parser.cls = "IMAParser" /\ Direct
    /\ Called("get_bytes", <<size>>, IMA_get_bytes(parser, size))
    /\ UNCHANGED header

IMAParseEvent ==
    /\ parser.cls = "IMAParser"
    /\ Called("parse_event", <<>>, IMA_parse_event(parser))
    /\ UNCHANGED header

Next ==
    \/ \E size \in (-1)..MaxRead : TLVGetBytes(size)
    \/ \E size \in 0..MaxRead, max_size \in 1..2 : TLVGetInt(size, max_size)
    \/ TLVParseEvent
    \/ \E size \in (-1)..MaxRead : UEFIGetBytes(size)
    \/ UEFIParseHeaderEvent
    \/ UEFIParseEvent
    \/ UEFIGetUtf16
    \/ UEFIParseDevicePath
    \/ UEFISignatureListParse
    \/ \E cls \in {"SecureBootVariable", "SignaturesVariable",
                    "UEFIBootVariable", "UEFIBootOrderVariable",
                    "UEFIUnknownVariable"} : UEFIVariableParse(cls)
    \/ \E cls \in {"UEFI_EV_EFI_PlatformFirmwareBlobEvent",
                    "UEFIVariableDataEvent",
                    "UEFI_EV_EFI_VariableAuthorityEvent",
                    "UEFI_EF_EFI_BootServicesApplicationEvent",
                    "UEFI_EV_EFI_HandoffTablesEvent"} : UEFIHandlerParse(cls)
    \/ \E size \in (-1)..MaxRead : IMAGetBytes(size)
    \/ IMAParseEvent

Spec == Init /\ [][Next]_vars

(***************************************************************************)
(* The registry alone: register_event_handler and lookup_event_handler     *)
(* called on the registry as the module creates it, empty.                 *)
(***************************************************************************)
MaxRegs == 3    \* register_event_handler calls made

NoInput == [fmt |-> "none", g |-> "none"]

InitRegistry ==
    /\ input = NoInput
    /\ parser = UEFIParser(<<>>)
    /\ call = NoCall
    /\ result = [ok |-> TRUE, v |-> <<>>]
    /\ header = NoHeader
    /\ _event_handlers = EmptyDict
    /\ registered = <<>>
    /\ looked_up = NoLookup

Register(event_type, handler, pcr) ==
    /\ Len(registered) < MaxRegs
    /\ _event_handlers' =
           register_event_handler(_event_handlers, event_type, handler, pcr)
    /\ registered' = Append(registered, <<event_type, handler, pcr>>)
    /\ UNCHANGED <<input, parser, call, result, header, looked_up>>

Lookup(event_type, pcr) ==
    /\ looked_up' = [called |-> TRUE, event_type |-> event_type, pcr |-> pcr,
                     registered |-> registered,
                     handler |-> lookup_event_handler(_event_handlers,
                                                      event_type, pcr)]
    /\ UNCHANGED <<input, parser, call, result, header, _event_handlers,
                   registered>>

NextRegistry ==
    \/ \E event_type \in {ev_separator, ev_s_crtm_contents},
          handler \in {"UEFI_EV_SeparatorEvent", "UEFI_EV_S_CRTM_ContentsEvent"},
          pcr \in {None, Some(0), Some(1)} :
            Register(event_type, handler, pcr)
    \/ \E event_type \in {ev_separator, ev_s_crtm_contents}, pcr \in {0, 1} :
            Lookup(event_type, pcr)

SpecRegistry == InitRegistry /\ [][NextRegistry]_vars

(***************************************************************************)
(* Two sessions: a caller holds two UEFIParser objects, one per log, and   *)
(* calls parse_header_event and parse_event on them in any order.  Here    *)
(* parser, result and header are pairs indexed by the session, and call    *)
(* names the session of the last call in args.                             *)
(***************************************************************************)
MaxSessionCalls == 4    \* calls made on the two sessions together

SessionLogs ==
    {UefiSession(TRUE, h, <<e, e>>, 0) :
        h \in {UefiHdrBase,
               [UefiHdrBase EXCEPT !.uintn = 1, !.algs = << <<sha1, 20>> >>],
               [UefiHdrBase EXCEPT !.algs = << <<sha1, 2>>, <<sha256, 3>> >>]},
        e \in {UefiEvBase, [UefiEvBase EXCEPT !.digs = <<sha1, sha256>>]}}

NoResult == [op |-> "new", ok |-> TRUE, v |-> <<>>]

InitSessions ==
    /\ input \in {[fmt |-> "sessions", g |-> "sessions", logs |-> <<a, b>>] :
                     a \in SessionLogs, b \in SessionLogs}
    /\ parser = [s \in 1..2 |-> UEFIParser(UefiBuffer(input.logs[s]))]
    /\ call = NoCall
    /\ result = [s \in 1..2 |-> NoResult]
    /\ header = [s \in 1..2 |-> NoHeader]
    /\ _event_handlers = register_all(EmptyDict, events_registrations)
    /\ registered = events_registrations
    /\ looked_up = NoLookup

\* the call op() on the parser object of session s, with outcome r
SessionCalled(s, op, r) ==
    /\ call.n < MaxSessionCalls
    /\ parser' = [parser EXCEPT ![s] = r.p]
    /\ result' = [result EXCEPT ![s] = [op |-> op] @@ Outcome(r)]
    /\ call' = [op |-> op, args |-> <<s>>, before |-> parser, n |-> call.n + 1]
    /\ UNCHANGED <<input, _event_handlers, registered, looked_up>>

\* parse_header_event with _uintn and _digest_sizes kept on the class: the
\* header of one session sets them for every parser object
SessionParseHeaderEvent_on_class(s) ==
    /\ call.n < MaxSessionCalls
    /\ parser' = [t \in 1..2 |->
                     IF t = s THEN UEFI_parse_header_event(parser[s]).p
                     ELSE [parser[t] EXCEPT
                              !.uintn =
                                  UEFI_parse_header_event(parser[s]).p.uintn,
                              !.digest_sizes =
                                  UEFI_parse_header_event(parser[s]).p
                                      .digest_sizes]]
    /\ result' = [result EXCEPT ![s] =
                     [op |-> "parse_header_event"]
                         @@ Outcome(UEFI_parse_header_event(parser[s]))]
    /\ call' = [op |-> "parse_header_event", args |-> <<s>>,
                before |-> parser, n |-> call.n + 1]
    /\ header' = [header EXCEPT ![s] =
                     [called |-> TRUE]
                         @@ Outcome(UEFI_parse_header_event(parser[s]))]
    /\ UNCHANGED <<input, _event_handlers, registered, looked_up>>

SessionParseHeaderEvent(s) ==
    /\ SessionCalled(s, "parse_header_event",
                     UEFI_parse_header_event(parser[s]))
    /\ header' = [header EXCEPT ![s] =
                     [called |-> TRUE]
                         @@ Outcome(UEFI_parse_header_event(parser[s]))]

SessionParseEvent(s) ==
    /\ SessionCalled(s, "parse_event",
                     UEFI_parse_event(parser[s], _event_handlers))
    /\ UNCHANGED header

NextSessions ==
    \/ \E s \in 1..2 : SessionParseHeaderEvent(s)
    \/ \E s \in 1..2 : SessionParseEvent(s)

SpecSessions == InitSessions /\ [][NextSessions]_vars

(***************************************************************************)
(* The claims.  A claim about a call is stated on the state after it: call *)
(* holds the operation, its arguments and the object before, result the    *)
(* outcome, input how the buffer was built.                                *)
(***************************************************************************)
FirstParseEvent == call.op = "parse_event" /\ call.n = 1

Fails(e) == result = [ok |-> FALSE, err |-> e]

\* C1: in each of the three parsers, a read that requests n bytes when only
\* k < n bytes are left at offset o fails with ShortBuffer carrying
\* offset = o, requested = n and left = k.
C1_ShortBuffer ==
    (/\ call.op = "get_bytes"
     /\ call.args[1] > Len(call.before.data) - call.before.offset)
    => Fails(ShortBufferError(call.before.offset, call.args[1],
                              Len(call.before.data) - call.before.offset))

\* C2: for every CEL content grammar, when exactly m > 0 bytes are left in
\* the content range (or, for the version grammar, in the range of its two
\* fields) after the grammar has read its fields, parse_event fails with
\* NotConsumed{left: m} and returns no record.
C2_NotConsumed ==
    \A m \in 1..MaxExtra :
        (/\ input.fmt = "cel" /\ input.g \in CelGrammars
         /\ input \in {[CelBase(input.g) EXCEPT !.xc = m],
                       [CelBase(input.g) EXCEPT !.xin = m]}
         /\ FirstParseEvent)
        => Fails(NotConsumedError(m))

\* C3: an IMA parse_event on a record with m > 0 bytes left in the payload
\* after the descriptor's fields, or m > 0 bytes left after the record,
\* fails with NotConsumed{left: m}.
C3_ImaNotConsumed ==
    \A m \in 1..MaxExtra :
        (/\ input.fmt = "ima" /\ input.g = "event"
         /\ input.name \in ImaNames
         /\ input \in {[ImaBase(input.name) EXCEPT !.xin = m],
                       [ImaBase(input.name) EXCEPT !.xo = m]}
         /\ FirstParseEvent)
        => Fails(NotConsumedError(m))

\* the records of grammar g with one discriminator outside its declared
\* set, each with the value read and the declared set
C4_Cases(g) ==
    LET b == CelBase(g) IN
    {<<[b EXCEPT !.rt = 1], 1, <<CELBaseType_recnum>> >>,
     <<[b EXCEPT !.ht = 0], 0, <<CELBaseType_pcr, CELBaseType_nv_index>> >>,
     <<[b EXCEPT !.ht = 3], 3, <<CELBaseType_pcr, CELBaseType_nv_index>> >>,
     <<[b EXCEPT !.dt = 0], 0, <<CELBaseType_digests>> >>,
     <<[b EXCEPT !.da = 5], 5, DigestAlgorithm>>,
     <<[b EXCEPT !.ct = 6], 6, CELContentType>>,
     <<[b EXCEPT !.ct = 0], 0, CELContentType>>}
    \cup (IF g \in CelMgmt
          THEN {<<[b EXCEPT !.mt = 3], 3, CELMgmtType>>,
                <<[b EXCEPT !.mt = 255], 255, CELMgmtType>>}
          ELSE {})
    \cup (IF g = "state_trans"
          THEN {<<[b EXCEPT !.sv = 3], 3, StateTransType>>}
          ELSE {})
    \cup (CASE g = "cel_version" ->
                  {<<[b EXCEPT !.f1t = 255], 255, CELVersionType>>}
            [] g = "pcclient_std" ->
                  {<<[b EXCEPT !.f1t = 255], 255, CELPCClientSTDType>>}
            [] g = "ima_template" ->
                  {<<[b EXCEPT !.f1t = 255], 255, CELIMATemplateType>>}
            [] OTHER -> {})

\* C4: a CEL discriminator read whose value lies outside its declared set
\* fails the decode with UnexpectedType{got: the value, expected: the
\* declared set in declared order}.
C4_UnexpectedType ==
    \A g \in CelGrammars : \A x \in C4_Cases(g) :
        (input = x[1] /\ FirstParseEvent)
        => Fails(UnexpectedTypeError(x[2], x[3]))

\* C5: an IMA record whose descriptor name is none of the eight canonical
\* names fails with UnexpectedType, got the name and expected the eight
\* names in declared order.
C5_UnknownDescriptor ==
    (/\ input.fmt = "ima" /\ input.g = "event"
     /\ input = ImaBase(input.name)
     /\ input.name \notin ImaNames
     /\ FirstParseEvent)
    => Fails(UnexpectedTypeError(input.name, IMATemplateDescriptor))

\* C6: a CEL integer read of width w above the maximum max fails with the
\* message "requested int size w larger then max".
C6_ValueTooLarge ==
    (/\ call.op = "get_int"
     /\ call.args[1] > call.args[2])
    => Fails(ValueError(<<"requested int size", call.args[1],
                          "larger then", call.args[2]>>))

\* C7: a well-formed UEFI record whose event_type has no registered
\* decoder, member of the enumeration or not, decodes to the opaque variant
\* holding exactly the payload bytes.
C7_UnknownEventType ==
    (/\ input.fmt = "uefi" /\ input.g = "session"
     /\ input.hashdr /\ input.hdr = UefiHdrBase /\ input.cut = 0
     /\ Len(input.events) = 1 /\ input.events[1].digs = <<sha1>>
     /\ header.called /\ header.ok
     /\ call.op = "parse_event" /\ call.n = 2
     /\ lookup_event_handler(_event_handlers, input.events[1].et,
                             input.events[1].pcr) = "UEFIUnknownEvent")
    => /\ result.ok
       /\ result.v.cls = "UEFIUnknownEvent"
       /\ result.v.event_data = UefiPayload(input.events[1])

\* the indices of the registrations in regs made under the key key
RegisteredUnder(regs, key) ==
    {i \in 1..Len(regs) :
        key = IF regs[i][3] # None THEN <<regs[i][1], regs[i][3][1]>>
              ELSE <<regs[i][1]>>}

\* the handler of the last registration in regs under the key key
LastRegistered(regs, key) ==
    regs[CHOOSE i \in RegisteredUnder(regs, key) :
             \A j \in RegisteredUnder(regs, key) : j <= i][2]

\* C8: after any sequence of register calls, a lookup of (event_type, pcr)
\* returns the decoder registered under the composite key when there is
\* one, else the decoder registered under event_type alone when there is
\* one, else the opaque decoder, in whatever order the two keys were
\* registered.
C8_LookupPrecedence ==
    looked_up.called =>
        looked_up.handler =
            IF RegisteredUnder(looked_up.registered,
                   <<looked_up.event_type, looked_up.pcr>>) # {}
            THEN LastRegistered(looked_up.registered,
                     <<looked_up.event_type, looked_up.pcr>>)
            ELSE IF RegisteredUnder(looked_up.registered,
                        <<looked_up.event_type>>) # {}
            THEN LastRegistered(looked_up.registered,
                     <<looked_up.event_type>>)
            ELSE "UEFIUnknownEvent"

\* a lookup that found the composite key's decoder although the scalar key
\* was registered after it, with another decoder
C8_Witness ==
    /\ looked_up.called
    /\ \E i, j \in 1..Len(looked_up.registered) :
          /\ i < j
          /\ looked_up.registered[i] =
                 <<looked_up.event_type, looked_up.handler,
                   Some(looked_up.pcr)>>
          /\ looked_up.registered[j][1] = looked_up.event_type
          /\ looked_up.registered[j][3] = None
          /\ looked_up.registered[j][2] # looked_up.handler

\* the event a parse_event call decodes when it starts where the first
\* event of the session starts
AtFirstEvent ==
    /\ input.fmt = "uefi" /\ input.g = "session" /\ input.cut = 0
    /\ call.op = "parse_event"
    /\ call.before.offset =
           IF input.hashdr THEN Len(UefiHeader(input.hdr)) ELSE 0

\* the first algorithm id of digs that table lacks
FirstAbsent(digs, table) ==
    digs[CHOOSE i \in 1..Len(digs) :
             /\ digs[i] \notin DOMAIN table
             /\ \A j \in 1..(i - 1) : digs[j] \in DOMAIN table]

HasAbsent(digs, table) == \E i \in 1..Len(digs) : digs[i] \notin DOMAIN table

\* C9 as stated: when a digest entry of an event names an algorithm id that
\* the session's digest-size table lacks, parse_event fails with the
\* missing-algorithm error (the KeyError of the table) and returns no record.
C9_MissingAlgorithm ==
    (/\ AtFirstEvent
     /\ input.events[1].et \in UEFIEventType
     /\ HasAbsent(input.events[1].digs, call.before.digest_sizes))
    => Fails(KeyError(<<FirstAbsent(input.events[1].digs,
                                    call.before.digest_sizes)>>))

\* C9 as amended: such a parse_event returns no record; it fails with the
\* KeyError of the table when the id is a member of DigestAlgorithm, with
\* the ValueError of DigestAlgorithm when the id is no member, and with the
\* ValueError of UEFIEventType, raised before the digests are read, when
\* the event type is no member.
C9_AbsentAlgorithmFails ==
    (/\ AtFirstEvent
     /\ HasAbsent(input.events[1].digs, call.before.digest_sizes))
    => Fails(IF input.events[1].et \notin UEFIEventType
             THEN ValueError(<<input.events[1].et,
                               "is not a valid UEFIEventType">>)
             ELSE IF In(FirstAbsent(input.events[1].digs,
                                    call.before.digest_sizes),
                        DigestAlgorithm)
             THEN KeyError(<<FirstAbsent(input.events[1].digs,
                                         call.before.digest_sizes)>>)
             ELSE ValueError(<<FirstAbsent(input.events[1].digs,
                                           call.before.digest_sizes),
                               "is not a valid DigestAlgorithm">>))

\* after a header that declared sha1, an event whose second digest entry
\* names sha256 failed with the KeyError of the table
C9_Witness ==
    /\ AtFirstEvent
    /\ header.called /\ header.ok
    /\ DOMAIN call.before.digest_sizes = {sha1}
    /\ input.events[1].digs = <<sha1, sha256>>
    /\ result = [ok |-> FALSE, err |-> KeyError(<<sha256>>)]

\* C10: once the session's header has been decoded, after every later
\* parse_event the table and the width are those the header declared, they
\* were so before the call, and every digest of a returned event has the
\* length the header declared for its algorithm.
C10_HeaderSizesUsed ==
    (header.called /\ header.ok /\ call.op = "parse_event")
    => /\ call.before.uintn = header.v.uintn_size
       /\ call.before.digest_sizes = header.v.digest_sizes
       /\ parser.uintn = header.v.uintn_size
       /\ parser.digest_sizes = header.v.digest_sizes
       /\ result.ok =>
              \A alg \in DOMAIN result.v.digests :
                  /\ alg \in DOMAIN header.v.digest_sizes
                  /\ Len(result.v.digests[alg]) = header.v.digest_sizes[alg]

\* the second event after a header that declared 2 bytes for sha1 was
\* returned with a sha1 digest
C10_Witness ==
    /\ header.called /\ header.ok
    /\ header.v.digest_sizes = DictSet(EmptyDict, sha1, 2)
    /\ call.op = "parse_event" /\ call.n = 3
    /\ result.ok
    /\ sha1 \in DOMAIN result.v.digests

\* C11: with two sessions decoding two logs, under every interleaving of
\* their parse_header_event and parse_event calls, a call on one session
\* leaves the parser object of the other as it was, and after a session's
\* header was decoded its parse_event calls run with the width and the table
\* of that header and return digests of the lengths that header declared.
C11_SessionsIsolated ==
    /\ call.op # "new" =>
           parser[3 - call.args[1]] = call.before[3 - call.args[1]]
    /\ \A s \in 1..2 :
           (header[s].called /\ header[s].ok /\ result[s].op = "parse_event")
           => /\ parser[s].uintn = header[s].v.uintn_size
              /\ parser[s].digest_sizes = header[s].v.digest_sizes
              /\ result[s].ok =>
                     \A alg \in DOMAIN result[s].v.digests :
                         Len(result[s].v.digests[alg]) =
                             header[s].v.digest_sizes[alg]

\* the two headers declared different widths and different sha1 sizes, the
\* second header was decoded after the first, and then each session
\* returned an event, the second session last
C11_Witness ==
    /\ call.op = "parse_event" /\ call.n = 4 /\ call.args = <<2>>
    /\ header[1].called /\ header[1].ok /\ header[2].called /\ header[2].ok
    /\ header[1].v.uintn_size # header[2].v.uintn_size
    /\ header[1].v.digest_sizes[sha1] # header[2].v.digest_sizes[sha1]
    /\ result[1].op = "parse_event" /\ result[1].ok
    /\ result[2].op = "parse_event" /\ result[2].ok
    /\ Len(result[1].v.digests[sha1]) # Len(result[2].v.digests[sha1])

\* the calls that decode: every call but a direct read
DecodeCall == call.op \notin {"new", "get_bytes", "get_int"}

Propagates(r) == ~r.ok => result = [ok |-> FALSE, err |-> r.err]

\* the content decoder of a CEL record on the content the record was built
\* with
CelNested(d) ==
    TLV_parse_content(TLVParser(CelContent(d)),
                      CELEvent(0, 1, EmptyDict, d.ct))

\* d deviates from the well-formed record of its grammar in its content only
CelOuterGood(d) ==
    /\ d.g \in CelGrammars
    /\ [d EXCEPT !.mt = CelBase(d.g).mt, !.f1t = 0, !.f2t = 1, !.w = 1,
                 !.sv = 2, !.xin = 0, !.xc = 0] = CelBase(d.g)

\* parse_fields on the payload an IMA record was built with
ImaNested(d) ==
    IMA_parse_fields(
        IMAParser(Concat([i \in 1..Len(d.vals) |-> LenLE(d.vals[i])])
                      \o Zeros(d.xin), "little"),
        IMATemplateDescriptor_expand(d.name).v)

\* the handler of a UEFI event on the payload the event was built with
UefiNested(e, uintn) ==
    Handler_parse(lookup_event_handler(_event_handlers, e.et, e.pcr),
                  [UEFIParser(UefiPayload(e)) EXCEPT !.uintn = uintn],
                  UEFIEvent(e.pcr, e.et, EmptyDict))

\* the variable handler on the data a variable event was built with
VarNested(d) ==
    Variable_parse(lookup_variable_handler(d.guid, utf_16_le(d.name)),
                   UEFIParser(d.vdata))

\* C14: in every format, a decode call in which the nested decoder of the
\* record's content fails (the CEL content decoder, the IMA field decoder,
\* the handler of a UEFI event, the handler of a UEFI variable and what it
\* calls in turn) fails with that decoder's error, and a decode call on a
\* record cut short fails with the error of the read.
C14_ErrorsPropagate ==
    /\ (FirstParseEvent /\ input.fmt = "cel" /\ CelOuterGood(input))
       => Propagates(CelNested(input))
    /\ (FirstParseEvent /\ input.fmt = "ima" /\ input.g = "event"
           /\ input.name \in ImaNames /\ input.cut = 0)
       => Propagates(ImaNested(input))
    /\ (AtFirstEvent /\ header.called /\ header.ok /\ call.n = 2
           /\ input.events[1].et \in UEFIEventType
           /\ ~HasAbsent(input.events[1].digs, call.before.digest_sizes))
       => Propagates(UefiNested(input.events[1], call.before.uintn))
    /\ (call.op = "UEFIEvent.parse" /\ input.dec = "UEFIVariableDataEvent"
           /\ input.of.unlen = Len(input.of.name)
           /\ input.of.vdlen = Len(input.of.vdata))
       => Propagates(VarNested(input.of))
    /\ (FirstParseEvent /\ input.fmt \in {"cel", "ima"}
           /\ input.g \in CelGrammars \cup {"event"} /\ input.cut > 0)
       => Fails(EOFError)

\* a variable event whose PK variable holds a signature list with a
\* signature size of 0 failed with the EOFError of the signature's get_guid
C14_Witness ==
    /\ call.op = "UEFIEvent.parse" /\ input.dec = "UEFIVariableDataEvent"
    /\ input.of.name = ascii_PK
    /\ input.of.vdata = SigListBytes([SigListBase EXCEPT !.ss = 0])
    /\ ~VarNested(input.of).ok
    /\ Fails(EOFError)

\* the record a well-formed CEL record decodes to, from the values it was
\* built with
CelExpected(d) ==
    [x \in {"recnum", "handle", "digests", "content_type"} |->
        CASE x = "recnum" -> 0
          [] x = "handle" -> 1
          [] x = "digests" -> DictSet(EmptyDict, d.da, <<7, 7>>)
          [] OTHER -> d.ct]
    @@ CASE d.g = "firmware_end" ->
                [cls |-> "CELFirmwareEndEvent", type |-> d.mt]
         [] d.g = "cel_version" ->
                [cls |-> "CELVersionEvent", type |-> d.mt, major |-> 2,
                 minor |-> 0]
         [] d.g = "cel_timestamp" ->
                [cls |-> "CELTimestampEvent", type |-> d.mt, timestamp |-> 9]
         [] d.g = "state_trans" ->
                [cls |-> "CELStateTransEvent", type |-> d.mt,
                 state_trans |-> d.sv]
         [] d.g = "pcclient_std" ->
                [cls |-> "CELPCClientSTDEvent", event_type |-> 6,
                 event_data |-> <<102, 97>>]
         [] OTHER ->
                [cls |-> "CELIMATemplateEvent", template_name |-> <<101>>,
                 template_data |-> <<102, 97>>]

\* C15: on a buffer that is k well-formed CEL records one after the other,
\* the n-th parse_event call, n <= k, returns the n-th record and advances
\* the offset by the length of that record, and after the k-th call no byte
\* is left.
C15_Concatenation ==
    (/\ input.fmt = "cel" /\ input.g = "seq"
     /\ call.op = "parse_event" /\ call.n <= Len(input.records))
    => /\ result = [ok |-> TRUE, v |-> CelExpected(input.records[call.n])]
       /\ parser.offset =
              call.before.offset + Len(CelRecord(input.records[call.n]))
       /\ call.n = Len(input.records) => TLV_left(parser) = 0

\* the third call on a buffer of a version record, a firmware end record
\* and a PC client record returned the PC client record and left no byte
C15_Witness ==
    /\ input.fmt = "cel" /\ input.g = "seq"
    /\ input.records = <<CelBase("cel_version"), CelBase("firmware_end"),
                         CelBase("pcclient_std")>>
    /\ call.op = "parse_event" /\ call.n = 3
    /\ result.ok /\ result.v.cls = "CELPCClientSTDEvent"
    /\ call.before.offset = 46 + 34
    /\ TLV_left(parser) = 0

\* C16 as stated: a bounded UEFI decode whose decoder leaves m > 0 bytes of
\* its range unread fails with NotConsumedError(m): the payload of an event
\* that carries m bytes after what its handler reads, the data of a
\* SecureBoot variable that is m bytes longer than the one byte read, and
\* the payload of a firmware blob event that is m bytes longer than its
\* two integers.
C16_UefiNotConsumed ==
    /\ (AtFirstEvent /\ header.called /\ header.ok /\ call.n = 2
           /\ ~HasAbsent(input.events[1].digs, call.before.digest_sizes)
           /\ input.events[1].et \in {ev_s_crtm_contents, ev_event_tag}
           /\ input.events[1].pc = 0 /\ input.events[1].xp > 0)
       => Fails(NotConsumedError(input.events[1].xp))
    /\ (call.op = "UEFIEvent.parse" /\ input.dec = "UEFIVariableDataEvent"
           /\ lookup_variable_handler(input.of.guid, utf_16_le(input.of.name))
                  = "SecureBootVariable"
           /\ input.of.unlen = Len(input.of.name) /\ input.of.xp = 0
           /\ input.of.vdlen = Len(input.of.vdata) /\ input.of.vdlen > 1)
       => Fails(NotConsumedError(input.of.vdlen - 1))
    /\ (call.op = "UEFIEvent.parse"
           /\ input.dec = "UEFI_EV_EFI_PlatformFirmwareBlobEvent"
           /\ Len(input.data) > 16)
       => Fails(NotConsumedError(Len(input.data) - 16))

\* the record is an evm-sig record whose payload holds at least six
\* fields, the first five of them well formed: a d-ng value with its
\* colon and xattr lengths of four bytes each
EvmSigSixth(d) ==
    /\ d.fmt = "ima" /\ d.g = "event" /\ d.name = bytes_evm_sig
    /\ d.cut = 0
    /\ Len(d.vals) >= 6
    /\ \E i \in 1..Len(d.vals[1]) : d.vals[1][i] = colon
    /\ Len(d.vals[5]) % 4 = 0

\* C17: a parse_event on an evm-sig record never returns a record, and
\* when it reaches the sixth field, xattrvalues, it fails with
\* NotImplementedError, whatever the value of the field and whatever
\* follows it.
C17_XattrValues ==
    /\ (FirstParseEvent /\ input.fmt = "ima" /\ input.g = "event"
           /\ input.name = bytes_evm_sig)
       => ~result.ok
    /\ (FirstParseEvent /\ EvmSigSixth(input))
       => Fails(NotImplementedError)

\* an evm-sig record with an empty xattrvalues field failed with
\* NotImplementedError, its subparser never consuming the three fields
\* that follow
C17_Witness ==
    /\ FirstParseEvent /\ EvmSigSixth(input)
    /\ input.vals[6] = <<>> /\ Len(input.vals) = 9
    /\ Fails(NotImplementedError)
    /\ parser.offset = Len(parser.data)

\* C18 as stated: in every state of a cursor, after any sequence of reads
\* that succeeded or failed, 0 <= offset <= len(data), so that left is
\* never negative and never more than the length of the buffer.
C18_OffsetInBounds ==
    /\ 0 <= parser.offset
    /\ parser.offset <= Len(parser.data)

\* a read of the cursor was called with a size a decoder can pass, the
\* value of an unsigned length field or a literal, and it succeeded
ReadDone ==
    /\ call.op \in {"get_bytes", "get_int"}
    /\ call.args[1] >= 0
    /\ result.ok

Remaining(p) == Len(p.data) - p.offset

\* C19 as stated: every successful read of a cursor leaves fewer bytes
\* remaining than there were before it, in each of the three parsers and
\* for every size a decoder can pass.
C19_StrictDecrease == ReadDone => Remaining(parser) < Remaining(call.before)

\* C19 as amended: a successful read of n >= 0 bytes leaves exactly n
\* bytes fewer remaining than before, so that the count decreases
\* strictly when n > 0 and stays as it was when n = 0.
C19_DecreaseBySize ==
    ReadDone
    => /\ Remaining(parser) = Remaining(call.before) - call.args[1]
       /\ call.args[1] > 0 => Remaining(parser) < Remaining(call.before)
       /\ call.args[1] = 0 => Remaining(parser) = Remaining(call.before)

\* after a read of one byte of a UEFI cursor over two bytes, a read of no
\* bytes succeeded and left the one byte remaining
C19_Witness ==
    /\ ReadDone /\ parser.cls = "UEFIParser"
    /\ call.n = 2 /\ call.args = <<0>>
    /\ call.before.offset = 1
    /\ Remaining(parser) = 1 /\ Remaining(call.before) = 1

\* C20 as stated: the sub-cursor that a parse_event which returned an
\* event created for the payload, from the parser as it stood once the
\* payload had been read, has the integer width and the digest-size table
\* of that parser.
C20_SubparserContext ==
    (parser.cls = "UEFIParser" /\ call.op = "parse_event" /\ result.ok)
    => /\ UEFI_get_subparser(parser, <<>>).uintn = parser.uintn
       /\ UEFI_get_subparser(parser, <<>>).digest_sizes
              = parser.digest_sizes

\* the fields of the record before its digests are well formed, the digest
\* entry names a member of DigestAlgorithm, and nothing is cut
CelDigestsReached(d) ==
    /\ d.fmt = "cel" /\ d.g \in CelGrammars /\ d.cut = 0
    /\ d.rt = CELBaseType_recnum /\ d.rw = 1
    /\ d.ht = CELBaseType_pcr /\ d.hw = 1
    /\ d.dt = CELBaseType_digests /\ In(d.da, DigestAlgorithm)

\* the content field of the record, which follows the digest entry
CelContentField(d) == TLV(d.ct, CelContent(d))

\* C21: get_digests returns only when the entries it read add up to the
\* declared length L, each counted as 5 + its value length.  An entry that
\* carries the total past L fails with ValueError; when the entry of the
\* record stops short of L the field that follows is read as an entry:
\* its type fails get_tl when it is no digest algorithm, it carries the
\* total past L when it is longer than what is missing, and a record is
\* returned only when it fills L exactly, as the sha1 entry, and a content
\* field follows it.
C21_DigestsLength ==
    (FirstParseEvent /\ CelDigestsReached(input))
    => /\ input.dd < 0 => Fails(ValueError(<<>>))
       /\ (input.dd > 0 /\ ~In(input.ct, DigestAlgorithm))
          => Fails(ValueError(<<"expected one of", DigestAlgorithm,
                                "got", input.ct>>))
       /\ (input.dd > 0 /\ input.ct = sha1
              /\ input.dd < Len(CelContentField(input)))
          => Fails(ValueError(<<>>))
       /\ result.ok
          => \/ input.dd = 0
             \/ /\ input.dd = Len(CelContentField(input))
                /\ input.ct = sha1 /\ input.rep = 1
                /\ result.v.digests[sha1] = CelContent(input)

\* a record whose digests field declares one byte less than its entry
\* holds failed with the bare ValueError of get_digests
C21_Witness ==
    /\ FirstParseEvent /\ CelDigestsReached(input)
    /\ input.dd = -1 /\ input.g = "firmware_end"
    /\ Fails(ValueError(<<>>))
    /\ parser.offset = 24

\* a record of one of the three grammars of two fields that differs from
\* the well-formed record in the types of the two fields at most
TwoFieldRecord(d) ==
    /\ d.fmt = "cel" /\ d.g \in {"cel_version", "pcclient_std", "ima_template"}
    /\ [d EXCEPT !.f1t = 0, !.f2t = 1] = CelBase(d.g)

\* C22 as stated: in the version, PC client and IMA template grammars the
\* two fields are accepted in either order, a record is returned only
\* when each has been read once, and once the first field has been read a
\* second field of the same or of any other type is rejected with
\* UnexpectedType, got the type and expected the one field not yet seen.
C22_TwoFields ==
    (FirstParseEvent /\ TwoFieldRecord(input))
    => /\ {input.f1t, input.f2t} = {0, 1} <=> result.ok
       /\ (input.f1t \in {0, 1} /\ input.f2t # 1 - input.f1t)
          => Fails(UnexpectedTypeError(input.f2t, <<1 - input.f1t>>))

\* the i-th value of the payload decoded on its own as field_type
ImaFieldOf(field_type, value) ==
    IMA_parse_field_value(IMAParser(<<>>, "little"), field_type, value).v

\* C23: a record returned for one of the eight descriptors has as many
\* fields as the descriptor's tuple, and its i-th field is the i-th
\* length-prefixed value of the payload decoded as the i-th identifier of
\* the tuple; ima-ng gives d-ng, then n-ng.
C23_FieldsInOrder ==
    (FirstParseEvent /\ input.fmt = "ima" /\ input.g = "event"
        /\ input.name \in ImaNames /\ result.ok)
    => /\ Len(result.v.fields)
              = Len(IMATemplateDescriptor_expand(input.name).v)
       /\ Len(result.v.fields) = Len(input.vals)
       /\ \A i \in 1..Len(result.v.fields) :
              /\ result.v.fields[i].field
                     = IMATemplateDescriptor_expand(input.name).v[i]
              /\ result.v.fields[i]
                     = ImaFieldOf(result.v.fields[i].field, input.vals[i])
       /\ input.name = bytes_ima_ng
          => /\ Len(result.v.fields) = 2
             /\ result.v.fields[1].field = "d-ng"
             /\ result.v.fields[2].field = "n-ng"
             /\ result.v.fields[2].name = input.vals[2]

\* an ima-modsig record was returned with its five fields, the fourth the
\* d-modsig digest and the fifth the modsig signature
C23_Witness ==
    /\ FirstParseEvent /\ input.fmt = "ima" /\ input.g = "event"
    /\ input.name = bytes_ima_modsig /\ result.ok
    /\ Len(result.v.fields) = 5
    /\ result.v.fields[1] = [field |-> "d-ng", algorithm |-> <<97>>,
                             digest |-> <<1, 2>>]
    /\ result.v.fields[4] = [field |-> "d-modsig", digest |-> <<1, 2>>]
    /\ result.v.fields[5].field = "modsig"

\* C24 as stated: in a device-path sequence a segment whose (type,
\* subtype) pair has no registered decoder, whatever the two bytes,
\* decodes to a raw entry that holds the bytes after its header, and the
\* decoding goes on with the segment that follows until the range is
\* exhausted.
C24_UnregisteredSegment ==
    \A x \in UnregisteredSegments :
        \A tail \in {<<>>, SegEnd, Seg(DeviceType_media, 9, 5, <<8>>)} :
            (call.op = "parse_device_path"
                /\ input.data = Seg(x[1], x[2], 4 + Len(x[3]), x[3]) \o tail)
            => /\ result.ok
               /\ Len(result.v) = IF tail = <<>> THEN 1 ELSE 2
               /\ result.v[1] = [cls |-> "UnknownDevicePath",
                                 device_type |-> x[1],
                                 device_subtype |-> x[2], data |-> x[3]]
               /\ parser.offset = Len(parser.data)

\* the number of entries the sizes of a signature list declare
SigEntries(d) == IF d.ss > 0 THEN (d.ls - 28) \div d.ss ELSE 0

\* the sizes of the list declare a whole number of entries of an owner
\* GUID at least, and the header and the entries are present
SigListWhole(d) ==
    /\ d.ls >= 28 /\ d.ss >= 16 /\ (d.ls - 28) % d.ss = 0
    /\ d.hs + SigEntries(d) * d.ss <= d.hs + d.n * 17

\* C25: a signature list of list size L, header size H and signature size
\* S that decodes has (L - 28) / S entries, each over S bytes and of the
\* class its signature type selects, and the cursor has advanced by
\* 28 + H + ((L - 28) / S) * S; a list whose sizes declare a whole number
\* of entries that are present decodes.
C25_SignatureList ==
    (call.op = "SignatureList.parse")
    => /\ result.ok
          => /\ (input.of.ls - 28) = SigEntries(input.of) * input.of.ss
             /\ Len(result.v.signatures) = SigEntries(input.of)
             /\ \A i \in 1..Len(result.v.signatures) :
                    /\ result.v.signatures[i].cls
                           = IF input.of.type = UUID_x509
                             THEN "X509SignatureData"
                             ELSE "UnknownSignatureData"
                    /\ result.v.signatures[i].signature_owner
                           = UUID_bytes_le([j \in 1..16 |-> j])
             /\ parser.offset
                    = 28 + input.of.hs + SigEntries(input.of) * input.of.ss
       /\ SigListWhole(input.of) => result.ok

\* a list of list size 62 and signature size 17 was decoded with two X509
\* entries, the cursor at 62
C25_Witness ==
    /\ call.op = "SignatureList.parse" /\ result.ok
    /\ input.of.ls = 62 /\ input.of.ss = 17 /\ input.of.hs = 0
    /\ Len(result.v.signatures) = 2
    /\ result.v.signatures[2].cls = "X509SignatureData"
    /\ result.v.signatures[2].certificate = <<2>>
    /\ parser.offset = 62

\* C26 as stated: in every state of a UEFI session, before and after a
\* header decode, the learned integer width is 4 or 8 bytes: the width
\* code of the parser is 1 or 2, and uintn_size returns 4 or 8.
C26_WidthValid ==
    parser.cls = "UEFIParser"
    => /\ parser.uintn \in {1, 2}
       /\ UEFI_uintn_size(parser).ok
       /\ UEFI_uintn_size(parser).v \in {4, 8}

\* the number of components the value has when split at every colon
Components(b) == Cardinality({i \in 1..Len(b) : b[i] = colon}) + 1

\* the bytes of b after its first colon
AfterColon(b) ==
    SubSeq(b, 1 + CHOOSE i \in 1..Len(b) :
                      b[i] = colon /\ \A k \in 1..(i - 1) : b[k] # colon,
           Len(b))

\* the bytes of b before its first colon
BeforeColon(b) == SubSeq(b, 1, Len(b) - Len(AfterColon(b)) - 1)

\* an ima-ng or ima-ngv2 record, whose first field is d-ng or d-ngv2
DigestFieldRecord ==
    /\ FirstParseEvent /\ input.fmt = "ima" /\ input.g = "event"
    /\ input.name \in {bytes_ima_ng, bytes_ima_ngv2} /\ input.cut = 0

\* the components a d-ng or d-ngv2 value must have
Wanted == IF input.name = bytes_ima_ng THEN 2 ELSE 3

\* C27 as stated: a d-ng value decodes only when it splits on ':' into
\* exactly 2 components, a d-ngv2 value only when it splits into exactly
\* 3; a value with any other number of components makes the decode fail.
C27_ExactComponents ==
    DigestFieldRecord => (result.ok <=> Components(input.vals[1]) = Wanted)

\* C27 as amended: a d-ng value decodes exactly when it has at least 2
\* components and a d-ngv2 value exactly when it has at least 3: the value
\* is split at its first colon (its first two), what follows is the digest
\* whatever colons it holds, and a value with fewer components fails with
\* the ValueError of the unpacking and no record is returned.
C27_EnoughComponents ==
    DigestFieldRecord
    => /\ result.ok <=> Components(input.vals[1]) >= Wanted
       /\ ~result.ok
          => Fails(ValueError(<<"not enough values to unpack", Wanted,
                                Components(input.vals[1])>>))
       /\ (result.ok /\ Wanted = 2)
          => /\ result.v.fields[1].algorithm = BeforeColon(input.vals[1])
             /\ result.v.fields[1].digest = AfterColon(input.vals[1])
       /\ (result.ok /\ Wanted = 3)
          => /\ result.v.fields[1].type = BeforeColon(input.vals[1])
             /\ result.v.fields[1].algorithm
                    = BeforeColon(AfterColon(input.vals[1]))
             /\ result.v.fields[1].digest
                    = AfterColon(AfterColon(input.vals[1]))

\* an ima-ng record whose d-ng value is a:\x01:\x02 was returned with the
\* algorithm a and the digest \x01:\x02
C27_Witness ==
    /\ DigestFieldRecord /\ input.name = bytes_ima_ng
    /\ input.vals[1] = <<97, colon, 1, colon, 2>>
    /\ result.ok
    /\ result.v.fields[1].algorithm = <<97>>
    /\ result.v.fields[1].digest = <<1, colon, 2>>

\* a read of the cursor was asked for more bytes than remained (and, for
\* get_int, for no more than max_size)
ReadTooLong ==
    /\ call.op \in {"get_bytes", "get_int"}
    /\ call.args[1] > Remaining(call.before)
    /\ call.op = "get_int" => call.args[1] <= call.args[2]

\* C28: in each of the three parsers a read that asks for more bytes than
\* remain fails with EOFError and leaves the cursor as it was before the
\* read: the same buffer, the same offset, the same count remaining.
C28_FailedReadFrame ==
    ReadTooLong
    => /\ Fails(EOFError)
       /\ parser = call.before
       /\ parser.offset = call.before.offset
       /\ Remaining(parser) = Remaining(call.before)

\* after a read of one byte of an IMA cursor over two bytes, a read of two
\* bytes failed and left the offset at 1
C28_Witness ==
    /\ ReadTooLong /\ parser.cls = "IMAParser"
    /\ call.n = 2 /\ call.args = <<2>>
    /\ Len(parser.data) = 2
    /\ Fails(EOFError)
    /\ call.before.offset = 1 /\ parser.offset = 1

\* C29 as stated: a parse_header_event that fails, for whatever reason,
\* leaves the width and the digest-size table of the session as they were
\* before the call.
C29_FailedHeaderFrame ==
    (parser.cls = "UEFIParser" /\ call.op = "parse_header_event"
        /\ ~result.ok)
    => /\ parser.uintn = call.before.uintn
       /\ parser.digest_sizes = call.before.digest_sizes

\* the digest count of the record at which the call started, when the
\* twelve bytes that end with it were there
DigestCount ==
    from_bytes_little(SubSeq(call.before.data, call.before.offset + 9,
                             call.before.offset + 12))

\* no parse_header_event of the session has returned a header
NoHeaderDecoded == ~header.called \/ (call.n = 2 /\ ~header.ok)

\* C30 as stated: on a session in which no header record has been decoded
\* a parse_event fails for every record whose digest count is at least 1,
\* the table being empty; only a record of digest count 0 is returned.
C30_NoHeaderNoDigests ==
    (parser.cls = "UEFIParser" /\ call.op = "parse_event" /\ NoHeaderDecoded
        /\ Remaining(call.before) >= 12 /\ DigestCount >= 1)
    => /\ ~result.ok
       /\ call.before.digest_sizes = EmptyDict

====
